---- MODULE Spec2Model ----
(***************************************************************************)
(* Critical-days section of the sales report (app/report_text.py), the     *)
(* feature-group resolver and SHAP aggregation (ml/inference.py).          *)
(*                                                                         *)
(* Representation.  A Python str is a sequence of Unicode code points, so  *)
(* "prep" is <<112,114,101,112>>; every literal below carries its text in  *)
(* a comment.  Money is in IDR.  A pandas median of an even number of      *)
(* values may end in .5, so medians and losses are kept doubled            *)
(* (median2 = 2 * median, loss2 = 2 * loss_amount) and every comparison    *)
(* of the code is made on cross-multiplied integers.                       *)
(***************************************************************************)
EXTENDS Integers, Sequences, FiniteSets, TLC

(***************************************************************************)
(* Python string primitives                                                *)
(***************************************************************************)
\* str.lower() on one code point: Latin A-Z and Cyrillic А-Я
LowerChar(c) ==
    IF (c >= 65 /\ c <= 90) \/ (c >= 1040 /\ c <= 1071) THEN c + 32 ELSE c

\* str.upper() on one code point
UpperChar(c) ==
    IF (c >= 97 /\ c <= 122) \/ (c >= 1072 /\ c <= 1103) THEN c - 32 ELSE c

Lower(s) == [i \in 1..Len(s) |-> LowerChar(s[i])]

Upper(s) == [i \in 1..Len(s) |-> UpperChar(s[i])]

\* sub in s
Contains(s, sub) ==
    \E i \in 0..(Len(s) - Len(sub)) : SubSeq(s, i + 1, i + Len(sub)) = sub

\* s.startswith(p)
StartsWith(s, p) ==
    Len(s) >= Len(p) /\ SubSeq(s, 1, Len(p)) = p

\* s.split("_")[-1]
LastToken(s) ==
    LET us == {i \in 1..Len(s) : s[i] = 95}
        last == IF us = {} THEN 0 ELSE CHOOSE i \in us : \A j \in us : j <= i
    IN SubSeq(s, last + 1, Len(s))

\* s.replace(old, new): leftmost, non-overlapping
RECURSIVE Replace(_, _, _)
Replace(s, old, new) ==
    IF Len(s) < Len(old) THEN s
    ELSE IF SubSeq(s, 1, Len(old)) = old
         THEN new \o Replace(SubSeq(s, Len(old) + 1, Len(s)), old, new)
         ELSE <<s[1]>> \o Replace(Tail(s), old, new)

\* first value of an insertion-ordered dict whose key occurs in n, <<>> if none
RECURSIVE FirstKeyIn(_, _)
FirstKeyIn(map, n) ==
    IF map = <<>> THEN <<>>
    ELSE IF Contains(n, map[1][1]) THEN map[1][2]
    ELSE FirstKeyIn(Tail(map), n)

\* dict.get(n) of a dict given as a sequence of <<key, value>>, <<>> if absent
RECURSIVE Lookup(_, _)
Lookup(map, n) ==
    IF map = <<>> THEN <<>>
    ELSE IF map[1][1] = n THEN map[1][2]
    ELSE Lookup(Tail(map), n)

(***************************************************************************)
(* Feature names -> labels                                                 *)
(***************************************************************************)
pretty_mapping == <<
    << (* "mkt_roas_grab" *) <<109,107,116,95,114,111,97,115,95,103,114,97,98>>, (* "ROAS (GRAB)" *) <<82,79,65,83,32,40,71,82,65,66,41>> >>,
    << (* "mkt_roas_gojek" *) <<109,107,116,95,114,111,97,115,95,103,111,106,101,107>>, (* "ROAS (GOJEK)" *) <<82,79,65,83,32,40,71,79,74,69,75,41>> >>,
    << (* "mkt_ads_spend_grab" *) <<109,107,116,95,97,100,115,95,115,112,101,110,100,95,103,114,97,98>>, (* "Рекламный бюджет (GRAB)" *) <<1056,1077,1082,1083,1072,1084,1085,1099,1081,32,1073,1102,1076,1078,1077,1090,32,40,71,82,65,66,41>> >>,
    << (* "mkt_ads_spend_gojek" *) <<109,107,116,95,97,100,115,95,115,112,101,110,100,95,103,111,106,101,107>>, (* "Рекламный бюджет (GOJEK)" *) <<1056,1077,1082,1083,1072,1084,1085,1099,1081,32,1073,1102,1076,1078,1077,1090,32,40,71,79,74,69,75,41>> >>,
    << (* "ads_spend_total" *) <<97,100,115,95,115,112,101,110,100,95,116,111,116,97,108>>, (* "Рекламный бюджет (суммарно)" *) <<1056,1077,1082,1083,1072,1084,1085,1099,1081,32,1073,1102,1076,1078,1077,1090,32,40,1089,1091,1084,1084,1072,1088,1085,1086,41>> >>,
    << (* "impressions_total" *) <<105,109,112,114,101,115,115,105,111,110,115,95,116,111,116,97,108>>, (* "Показы рекламы" *) <<1055,1086,1082,1072,1079,1099,32,1088,1077,1082,1083,1072,1084,1099>> >>,
    << (* "preparation_time_mean" *) <<112,114,101,112,97,114,97,116,105,111,110,95,116,105,109,101,95,109,101,97,110>>, (* "Среднее время приготовления (мин)" *) <<1057,1088,1077,1076,1085,1077,1077,32,1074,1088,1077,1084,1103,32,1087,1088,1080,1075,1086,1090,1086,1074,1083,1077,1085,1080,1103,32,40,1084,1080,1085,41>> >>,
    << (* "accepting_time_mean" *) <<97,99,99,101,112,116,105,110,103,95,116,105,109,101,95,109,101,97,110>>, (* "Среднее время подтверждения (мин)" *) <<1057,1088,1077,1076,1085,1077,1077,32,1074,1088,1077,1084,1103,32,1087,1086,1076,1090,1074,1077,1088,1078,1076,1077,1085,1080,1103,32,40,1084,1080,1085,41>> >>,
    << (* "delivery_time_mean" *) <<100,101,108,105,118,101,114,121,95,116,105,109,101,95,109,101,97,110>>, (* "Среднее время доставки (мин)" *) <<1057,1088,1077,1076,1085,1077,1077,32,1074,1088,1077,1084,1103,32,1076,1086,1089,1090,1072,1074,1082,1080,32,40,1084,1080,1085,41>> >>,
    << (* "ops_preparation_time_gojek" *) <<111,112,115,95,112,114,101,112,97,114,97,116,105,111,110,95,116,105,109,101,95,103,111,106,101,107>>, (* "GOJEK: время приготовления" *) <<71,79,74,69,75,58,32,1074,1088,1077,1084,1103,32,1087,1088,1080,1075,1086,1090,1086,1074,1083,1077,1085,1080,1103>> >>,
    << (* "ops_accepting_time_gojek" *) <<111,112,115,95,97,99,99,101,112,116,105,110,103,95,116,105,109,101,95,103,111,106,101,107>>, (* "GOJEK: время подтверждения" *) <<71,79,74,69,75,58,32,1074,1088,1077,1084,1103,32,1087,1086,1076,1090,1074,1077,1088,1078,1076,1077,1085,1080,1103>> >>,
    << (* "ops_delivery_time_gojek" *) <<111,112,115,95,100,101,108,105,118,101,114,121,95,116,105,109,101,95,103,111,106,101,107>>, (* "GOJEK: время доставки" *) <<71,79,74,69,75,58,32,1074,1088,1077,1084,1103,32,1076,1086,1089,1090,1072,1074,1082,1080>> >>,
    << (* "outage_offline_rate_grab" *) <<111,117,116,97,103,101,95,111,102,102,108,105,110,101,95,114,97,116,101,95,103,114,97,98>>, (* "GRAB: оффлайн (мин)" *) <<71,82,65,66,58,32,1086,1092,1092,1083,1072,1081,1085,32,40,1084,1080,1085,41>> >>,
    << (* "offline_rate_grab" *) <<111,102,102,108,105,110,101,95,114,97,116,101,95,103,114,97,98>>, (* "GRAB: оффлайн (мин)" *) <<71,82,65,66,58,32,1086,1092,1092,1083,1072,1081,1085,32,40,1084,1080,1085,41>> >>,
    << (* "rain" *) <<114,97,105,110>>, (* "Дождь (мм)" *) <<1044,1086,1078,1076,1100,32,40,1084,1084,41>> >>,
    << (* "temp" *) <<116,101,109,112>>, (* "Температура (°C)" *) <<1058,1077,1084,1087,1077,1088,1072,1090,1091,1088,1072,32,40,176,67,41>> >>,
    << (* "wind" *) <<119,105,110,100>>, (* "Ветер" *) <<1042,1077,1090,1077,1088>> >>,
    << (* "humidity" *) <<104,117,109,105,100,105,116,121>>, (* "Влажность (%)" *) <<1042,1083,1072,1078,1085,1086,1089,1090,1100,32,40,37,41>> >>,
    << (* "tourist_flow" *) <<116,111,117,114,105,115,116,95,102,108,111,119>>, (* "Туристический поток" *) <<1058,1091,1088,1080,1089,1090,1080,1095,1077,1089,1082,1080,1081,32,1087,1086,1090,1086,1082>> >>,
    << (* "is_holiday" *) <<105,115,95,104,111,108,105,100,97,121>>, (* "Праздник" *) <<1055,1088,1072,1079,1076,1085,1080,1082>> >>,
    << (* "day_of_week" *) <<100,97,121,95,111,102,95,119,101,101,107>>, (* "День недели" *) <<1044,1077,1085,1100,32,1085,1077,1076,1077,1083,1080>> >>,
    << (* "is_weekend" *) <<105,115,95,119,101,101,107,101,110,100>>, (* "Выходной" *) <<1042,1099,1093,1086,1076,1085,1086,1081>> >>,
    << (* "rating" *) <<114,97,116,105,110,103>>, (* "Средний рейтинг" *) <<1057,1088,1077,1076,1085,1080,1081,32,1088,1077,1081,1090,1080,1085,1075>> >> >>

pretty_feature_name(name) ==
    LET n == Lower(name)
        plat == Upper(LastToken(n))
    IN  IF Lookup(pretty_mapping, n) # <<>> THEN Lookup(pretty_mapping, n)
        ELSE IF StartsWith(n, (* "ops_preparation_time_" *) <<111,112,115,95,112,114,101,112,97,114,97,116,105,111,110,95,116,105,109,101,95>>)
             THEN plat \o (* ": время приготовления" *) <<58,32,1074,1088,1077,1084,1103,32,1087,1088,1080,1075,1086,1090,1086,1074,1083,1077,1085,1080,1103>>
        ELSE IF StartsWith(n, (* "ops_accepting_time_" *) <<111,112,115,95,97,99,99,101,112,116,105,110,103,95,116,105,109,101,95>>)
             THEN plat \o (* ": время подтверждения" *) <<58,32,1074,1088,1077,1084,1103,32,1087,1086,1076,1090,1074,1077,1088,1078,1076,1077,1085,1080,1103>>
        ELSE IF StartsWith(n, (* "ops_delivery_time_" *) <<111,112,115,95,100,101,108,105,118,101,114,121,95,116,105,109,101,95>>)
             THEN plat \o (* ": время доставки" *) <<58,32,1074,1088,1077,1084,1103,32,1076,1086,1089,1090,1072,1074,1082,1080>>
        ELSE IF StartsWith(n, (* "mkt_roas_" *) <<109,107,116,95,114,111,97,115,95>>)
             THEN (* "ROAS (" *) <<82,79,65,83,32,40>> \o plat \o (* ")" *) <<41>>
        ELSE IF StartsWith(n, (* "mkt_ads_spend_" *) <<109,107,116,95,97,100,115,95,115,112,101,110,100,95>>)
             THEN (* "Рекламный бюджет (" *) <<1056,1077,1082,1083,1072,1084,1085,1099,1081,32,1073,1102,1076,1078,1077,1090,32,40>> \o plat \o (* ")" *) <<41>>
        ELSE Replace(Replace(Replace(Replace(name, (* "_" *) <<95>>, (* " " *) <<32>>),
                     (* "grab" *) <<103,114,97,98>>, (* "GRAB" *) <<71,82,65,66>>), (* "gojek" *) <<103,111,106,101,107>>, (* "GOJEK" *) <<71,79,74,69,75>>), (* "roas" *) <<114,111,97,115>>, (* "ROAS" *) <<82,79,65,83>>)

MIN_NEG_SHARE_PCT == 2

MIN_NEG_IDR == 100000

REPORT_STRICT_MODE == TRUE

\* variant of marketing_map with the platform keys ahead of the keys they contain
marketing_map_specific_first == <<
    << (* "grab_ads_spend" *) <<103,114,97,98,95,97,100,115,95,115,112,101,110,100>>, (* "GRAB: рекламный бюджет" *) <<71,82,65,66,58,32,1088,1077,1082,1083,1072,1084,1085,1099,1081,32,1073,1102,1076,1078,1077,1090>> >>,
    << (* "gojek_ads_spend" *) <<103,111,106,101,107,95,97,100,115,95,115,112,101,110,100>>, (* "GOJEK: рекламный бюджет" *) <<71,79,74,69,75,58,32,1088,1077,1082,1083,1072,1084,1085,1099,1081,32,1073,1102,1076,1078,1077,1090>> >>,
    << (* "grab_roas" *) <<103,114,97,98,95,114,111,97,115>>, (* "GRAB: ROAS" *) <<71,82,65,66,58,32,82,79,65,83>> >>,
    << (* "gojek_roas" *) <<103,111,106,101,107,95,114,111,97,115>>, (* "GOJEK: ROAS" *) <<71,79,74,69,75,58,32,82,79,65,83>> >>,
    << (* "ads_spend" *) <<97,100,115,95,115,112,101,110,100>>, (* "Рекламный бюджет" *) <<1056,1077,1082,1083,1072,1084,1085,1099,1081,32,1073,1102,1076,1078,1077,1090>> >>,
    << (* "ads_sales" *) <<97,100,115,95,115,97,108,101,115>>, (* "Рекламные продажи" *) <<1056,1077,1082,1083,1072,1084,1085,1099,1077,32,1087,1088,1086,1076,1072,1078,1080>> >>,
    << (* "roas" *) <<114,111,97,115>>, (* "ROAS" *) <<82,79,65,83>> >> >>

marketing_map == <<
    << (* "ads_spend" *) <<97,100,115,95,115,112,101,110,100>>, (* "Рекламный бюджет" *) <<1056,1077,1082,1083,1072,1084,1085,1099,1081,32,1073,1102,1076,1078,1077,1090>> >>,
    << (* "ads_sales" *) <<97,100,115,95,115,97,108,101,115>>, (* "Рекламные продажи" *) <<1056,1077,1082,1083,1072,1084,1085,1099,1077,32,1087,1088,1086,1076,1072,1078,1080>> >>,
    << (* "roas" *) <<114,111,97,115>>, (* "ROAS" *) <<82,79,65,83>> >>,
    << (* "grab_ads_spend" *) <<103,114,97,98,95,97,100,115,95,115,112,101,110,100>>, (* "GRAB: рекламный бюджет" *) <<71,82,65,66,58,32,1088,1077,1082,1083,1072,1084,1085,1099,1081,32,1073,1102,1076,1078,1077,1090>> >>,
    << (* "gojek_ads_spend" *) <<103,111,106,101,107,95,97,100,115,95,115,112,101,110,100>>, (* "GOJEK: рекламный бюджет" *) <<71,79,74,69,75,58,32,1088,1077,1082,1083,1072,1084,1085,1099,1081,32,1073,1102,1076,1078,1077,1090>> >>,
    << (* "grab_roas" *) <<103,114,97,98,95,114,111,97,115>>, (* "GRAB: ROAS" *) <<71,82,65,66,58,32,82,79,65,83>> >>,
    << (* "gojek_roas" *) <<103,111,106,101,107,95,114,111,97,115>>, (* "GOJEK: ROAS" *) <<71,79,74,69,75,58,32,82,79,65,83>> >> >>

ops_map == <<
    << (* "confirm_time" *) <<99,111,110,102,105,114,109,95,116,105,109,101>>, (* "Время подтверждения" *) <<1042,1088,1077,1084,1103,32,1087,1086,1076,1090,1074,1077,1088,1078,1076,1077,1085,1080,1103>> >>,
    << (* "delivery_time" *) <<100,101,108,105,118,101,114,121,95,116,105,109,101>>, (* "Время доставки" *) <<1042,1088,1077,1084,1103,32,1076,1086,1089,1090,1072,1074,1082,1080>> >>,
    << (* "rating" *) <<114,97,116,105,110,103>>, (* "Рейтинг" *) <<1056,1077,1081,1090,1080,1085,1075>> >>,
    << (* "cancelled_orders" *) <<99,97,110,99,101,108,108,101,100,95,111,114,100,101,114,115>>, (* "Отмены" *) <<1054,1090,1084,1077,1085,1099>> >>,
    << (* "lost_orders" *) <<108,111,115,116,95,111,114,100,101,114,115>>, (* "Потери" *) <<1055,1086,1090,1077,1088,1080>> >> >>

weather_map == <<
    << (* "rain" *) <<114,97,105,110>>, (* "Дождь" *) <<1044,1086,1078,1076,1100>> >>,
    << (* "humidity" *) <<104,117,109,105,100,105,116,121>>, (* "Влажность" *) <<1042,1083,1072,1078,1085,1086,1089,1090,1100>> >>,
    << (* "wind" *) <<119,105,110,100>>, (* "Ветер" *) <<1042,1077,1090,1077,1088>> >>,
    << (* "temp" *) <<116,101,109,112>>, (* "Температура" *) <<1058,1077,1084,1087,1077,1088,1072,1090,1091,1088,1072>> >>,
    << (* "temperature" *) <<116,101,109,112,101,114,97,116,117,114,101>>, (* "Температура" *) <<1058,1077,1084,1087,1077,1088,1072,1090,1091,1088,1072>> >> >>

normalize_feature_name(feature) ==
    LET n == Lower(feature) IN
    IF Contains(n, (* "prep_time" *) <<112,114,101,112,95,116,105,109,101>>) \/ Contains(n, (* "preparation_time" *) <<112,114,101,112,97,114,97,116,105,111,110,95,116,105,109,101>>)
    THEN (* "Время приготовления" *) <<1042,1088,1077,1084,1103,32,1087,1088,1080,1075,1086,1090,1086,1074,1083,1077,1085,1080,1103>>
    ELSE IF \/ Contains(n, (* "humidity_lag" *) <<104,117,109,105,100,105,116,121,95,108,97,103>>) \/ Contains(n, (* "wind_lag" *) <<119,105,110,100,95,108,97,103>>)
            \/ Contains(n, (* "temp_lag" *) <<116,101,109,112,95,108,97,103>>) \/ Contains(n, (* "rain_lag" *) <<114,97,105,110,95,108,97,103>>)
    THEN (* "Погода: " *) <<1055,1086,1075,1086,1076,1072,58,32>>
         \o (IF Contains(n, (* "humidity" *) <<104,117,109,105,100,105,116,121>>) THEN (* "влажность" *) <<1074,1083,1072,1078,1085,1086,1089,1090,1100>>
             ELSE IF Contains(n, (* "wind" *) <<119,105,110,100>>) THEN (* "ветер" *) <<1074,1077,1090,1077,1088>>
             ELSE IF Contains(n, (* "temp" *) <<116,101,109,112>>) THEN (* "температура" *) <<1090,1077,1084,1087,1077,1088,1072,1090,1091,1088,1072>>
             ELSE IF Contains(n, (* "rain" *) <<114,97,105,110>>) THEN (* "дождь" *) <<1076,1086,1078,1076,1100>>
             ELSE <<>>)
         \o (* " (предыдущие дни)" *) <<32,40,1087,1088,1077,1076,1099,1076,1091,1097,1080,1077,32,1076,1085,1080,41>>
    ELSE IF Lookup(weather_map, n) # <<>>
    THEN (* "Погода: " *) <<1055,1086,1075,1086,1076,1072,58,32>> \o Lookup(weather_map, n)
    ELSE IF FirstKeyIn(marketing_map, n) # <<>> THEN FirstKeyIn(marketing_map, n)
    ELSE IF FirstKeyIn(ops_map, n) # <<>> THEN FirstKeyIn(ops_map, n)
    ELSE pretty_feature_name(feature)


(***************************************************************************)
(* Bounds of the model and the input sets                                  *)
(***************************************************************************)
\* longest query window, in days
MaxDays == 7

\* daily total_sales values of a window row
SalesVals == {3000000, 7000000, 10000000}

\* per-column Shapley values the explainer may return
ShapVals == {-6000000, -120000, -80000, 200000}

\* the fitted ColumnTransformer of ml/training.py build_preprocessor:
\* ("num", SimpleImputer, numeric_cols), ("cat", Pipeline[..., OneHotEncoder],
\* categorical_cols), remainder dropped
MakePre(numeric_cols, categorical_cols, cats) == <<
    [name |-> "num", kind |-> "SimpleImputer", cols |-> numeric_cols, cats |-> <<>>],
    [name |-> "cat", kind |-> "Pipeline_OneHotEncoder", cols |-> categorical_cols, cats |-> cats],
    [name |-> "remainder", kind |-> "drop", cols |-> << (* "total_sales" *) <<116,111,116,97,108,95,115,97,108,101,115>>, (* "date" *) <<100,97,116,101>> >>, cats |-> <<>>] >>

\* artifact of the window specification: two numeric features
PreSmall == MakePre(<< (* "mkt_ads_spend_grab" *) <<109,107,116,95,97,100,115,95,115,112,101,110,100,95,103,114,97,98>>, (* "preparation_time_mean" *) <<112,114,101,112,97,114,97,116,105,111,110,95,116,105,109,101,95,109,101,97,110>> >>, <<>>, <<>>)

\* artifact with six numeric features, three of them variants of one signal
PreFull == MakePre(<< (* "ops_preparation_time_grab" *) <<111,112,115,95,112,114,101,112,97,114,97,116,105,111,110,95,116,105,109,101,95,103,114,97,98>>, (* "ops_preparation_time_gojek" *) <<111,112,115,95,112,114,101,112,97,114,97,116,105,111,110,95,116,105,109,101,95,103,111,106,101,107>>,
                      (* "preparation_time_mean" *) <<112,114,101,112,97,114,97,116,105,111,110,95,116,105,109,101,95,109,101,97,110>>, (* "mkt_ads_spend_grab" *) <<109,107,116,95,97,100,115,95,115,112,101,110,100,95,103,114,97,98>>,
                      (* "ops_rating_grab" *) <<111,112,115,95,114,97,116,105,110,103,95,103,114,97,98>>, (* "mkt_roas_grab" *) <<109,107,116,95,114,111,97,115,95,103,114,97,98>> >>, <<>>, <<>>)

\* artifact with one numeric and one one-hot-encoded feature (two categories)
PreCat == MakePre(<< (* "mkt_ads_spend_grab" *) <<109,107,116,95,97,100,115,95,115,112,101,110,100,95,103,114,97,98>> >>, << (* "platform" *) <<112,108,97,116,102,111,114,109>> >>,
                  << << (* "grab" *) <<103,114,97,98>>, (* "gojek" *) <<103,111,106,101,107>> >> >>)

VARIABLES
    csv_readable,    \* pd.read_csv of merged_dataset.csv succeeds
    sub,             \* the window: total_sales of each row, one row per date, by date
    artifact,        \* what load_artifacts finds on disk
    pre,             \* model.named_steps["pre"].transformers_
    features,        \* features.json
    shap_row,        \* explainer.shap_values(X_pre)[0] of the window's feature row, <<>> before its first evaluation
    pc,              \* position in _section8_critical_days_ml
    result,          \* which text the section returns
    median2,         \* 2 * median_sales
    critical_dates,  \* sorted critical dates (indices into sub)
    pos,             \* loop index of "for critical_date in critical_dates"
    blocks,          \* the per-day blocks appended to lines, in order
    raised,          \* dates whose ML analysis raised inside the try of the per-day function
    names_out,       \* resolver result: names of the preprocessed columns
    groups,          \* resolver result: feature -> indices of its preprocessed columns
    call,            \* ml/inference.py: the function that ran
    explainer_log,   \* ml/inference.py: the explainer modes constructed, in order
    outcome,         \* ml/inference.py: "returned" or "raised"
    feature_imp,     \* ml/inference.py: feature -> <<sum of |shap| over its indices, number of indices>>
    instance,        \* the module globals _data_adapter and _analyzer (0 is None)
    created,         \* how many DataAdapter and SalesAnalyzer objects were constructed
    thread,          \* per request thread: position in the getters, locals, returned object
    selection,       \* number of selected negative factors of one day, per pair of thresholds
    canon,           \* a feature name, its label, and the label of that label
    sync,            \* etl/api_client.py: the run of run_incremental_sync in progress and its record
    raw_stats,       \* the table raw_stats of one restaurant and source: stat_date -> row_hash
    request,         \* the call of _make_request in progress: the outcome of each attempt
    api              \* the hash of the payload the API serves for a date

\* the variables of etl/api_client.py
etlVars == <<sync, raw_stats, request, api>>

\* the variables of ml/inference.py and of the lazily created globals
extraVars == <<call, explainer_log, outcome, feature_imp, instance, created, thread,
               selection, canon, etlVars>>

vars == <<csv_readable, sub, artifact, pre, features, shap_row, pc, result, median2,
          critical_dates, pos, blocks, raised, names_out, groups, extraVars>>

(***************************************************************************)
(* Arithmetic helpers                                                      *)
(***************************************************************************)
Abs(v) == IF v < 0 THEN -v ELSE v

Max(a, b) == IF a >= b THEN a ELSE b

Min(a, b) == IF a <= b THEN a ELSE b

RECURSIVE SumSeq(_)
SumSeq(s) == IF s = <<>> THEN 0 ELSE s[1] + SumSeq(Tail(s))

\* variant of the ascending sort that puts an entry ahead of the entries equal to it
RECURSIVE SortAscTiesFirst(_)
SortAscTiesFirst(s) ==
    IF s = <<>> THEN <<>>
    ELSE LET init == SortAscTiesFirst(SubSeq(s, 1, Len(s) - 1))
             x == s[Len(s)]
             p == Cardinality({i \in 1..Len(init) : init[i].k < x.k})
         IN SubSeq(init, 1, p) \o <<x>> \o SubSeq(init, p + 1, Len(init))

\* list.sort / sorted, ascending by field k, stable
RECURSIVE SortAsc(_)
SortAsc(s) ==
    IF s = <<>> THEN <<>>
    ELSE LET init == SortAsc(SubSeq(s, 1, Len(s) - 1))
             x == s[Len(s)]
             p == Cardinality({i \in 1..Len(init) : init[i].k <= x.k})
         IN SubSeq(init, 1, p) \o <<x>> \o SubSeq(init, p + 1, Len(init))

\* list.sort(reverse=True), descending by field k, stable
RECURSIVE SortDesc(_)
SortDesc(s) ==
    IF s = <<>> THEN <<>>
    ELSE LET init == SortDesc(SubSeq(s, 1, Len(s) - 1))
             x == s[Len(s)]
             p == Cardinality({i \in 1..Len(init) : init[i].k >= x.k})
         IN SubSeq(init, 1, p) \o <<x>> \o SubSeq(init, p + 1, Len(init))

\* s[:n]
Take(s, n) == SubSeq(s, 1, Min(n, Len(s)))

\* [f(x) for x in s if keep(x)] over the indices of s
RECURSIVE FilterIdx(_, _)
FilterIdx(idxs, keep) ==
    IF idxs = <<>> THEN <<>>
    ELSE (IF idxs[1] \in keep THEN <<idxs[1]>> ELSE <<>>) \o FilterIdx(Tail(idxs), keep)

(***************************************************************************)
(* Critical-period detection                                               *)
(***************************************************************************)
MinDays == 7

\* daily["total_sales"].median(), doubled
Median2(daily) ==
    LET s == SortAsc([i \in 1..Len(daily) |-> [k |-> daily[i]]])
        n == Len(daily)
    IN IF n = 0 THEN 0
       ELSE IF n % 2 = 1 THEN 2 * s[(n + 1) \div 2].k
       ELSE s[n \div 2].k + s[n \div 2 + 1].k

\* the ratio 0.70 of "threshold = 0.70 * median_sales", in tenths
ThresholdTenths == 7

\* variant of the comparison that leaves out the days exactly at the threshold
IsCriticalStrict(total_sales, m2) == 20 * total_sales < ThresholdTenths * m2

\* daily["total_sales"] <= 0.70 * median_sales
IsCritical(total_sales, m2) == 20 * total_sales <= ThresholdTenths * m2

\* variant that leaves the dates at or below the threshold in date order
CriticalDatesByDate(daily, m2) ==
    FilterIdx([i \in 1..Len(daily) |-> i],
              {i \in 1..Len(daily) : IsCritical(daily[i], m2)})

\* the dates at or below the threshold, sorted by their daily total
CriticalDates(daily, m2) ==
    LET hit == FilterIdx([i \in 1..Len(daily) |-> i],
                         {i \in 1..Len(daily) : IsCritical(daily[i], m2)})
        keyed == SortAsc([j \in 1..Len(hit) |-> [d |-> hit[j], k |-> daily[hit[j]]]])
    IN [j \in 1..Len(keyed) |-> keyed[j].d]

\* variant of the length test that lets a six-day window through
InsufficientDataSixDays(rows) == REPORT_STRICT_MODE /\ Len(rows) < MinDays - 1

\* REPORT_STRICT_MODE and len(sub) < 7
InsufficientData(rows) == REPORT_STRICT_MODE /\ Len(rows) < MinDays

\* max(median_sales - day_sales, 0), doubled
Loss2(m2, day_sales) == Max(m2 - 2 * day_sales, 0)

(***************************************************************************)
(* Per-day ML analysis: _analyze_critical_day_improved                     *)
(***************************************************************************)
TopNeg == 5

TopPos == 3

TopRec == 3

MinFactors == 2

\* variant of the share test with the comparison turned round
ShareAtMost(idr, loss2, pct) ==
    IF loss2 > 0 THEN 200 * idr <= pct * loss2 ELSE 0 <= pct

\* contribution_share * 100 >= pct, contribution_share = abs(shap_val) / loss_amount if loss_amount > 0 else 0
ShareAtLeast(idr, loss2, pct) ==
    IF loss2 > 0 THEN 200 * idr >= pct * loss2 ELSE 0 >= pct

\* the threshold test of a negative contribution
\* under a share threshold pct (percent) and a monetary threshold min_idr
PassesWith(idr, loss2, pct, min_idr) ==
    ShareAtLeast(idr, loss2, pct) /\ idr >= min_idr

PassesThresholds(idr, loss2) == PassesWith(idr, loss2, MIN_NEG_SHARE_PCT, MIN_NEG_IDR)

\* zip(features, shap_values): the pairs the loop visits
ZipLen(feats, shap_values) == Min(Len(feats), Len(shap_values))

\* the signed values the loop over zip(features, shap_values) pairs with features
Contributions(feats, shap_values) ==
    [i \in 1..ZipLen(feats, shap_values) |-> shap_values[i]]

\* negative_factors as appended by the loop, before sorting
\* under a share threshold pct (percent) and a monetary threshold min_idr
NegativeAppendedWith(feats, shap_values, loss2, pct, min_idr) ==
    LET n == ZipLen(feats, shap_values)
        kept == FilterIdx([i \in 1..n |-> i],
                          {i \in 1..n : shap_values[i] < 0
                                        /\ PassesWith(Abs(shap_values[i]), loss2, pct, min_idr)})
    IN [j \in 1..Len(kept) |->
            [name |-> normalize_feature_name(feats[kept[j]]),
             k |-> Abs(shap_values[kept[j]])]]

NegativeAppended(feats, shap_values, loss2) ==
    NegativeAppendedWith(feats, shap_values, loss2, MIN_NEG_SHARE_PCT, MIN_NEG_IDR)

\* positive_factors as appended by the loop, before sorting
PositiveAppended(feats, shap_values) ==
    LET n == ZipLen(feats, shap_values)
        kept == FilterIdx([i \in 1..n |-> i], {i \in 1..n : shap_values[i] > 0})
    IN [j \in 1..Len(kept) |->
            [name |-> normalize_feature_name(feats[kept[j]]),
             k |-> shap_values[kept[j]]]]

\* negative_factors.sort(key=contribution, reverse=True); negative_factors[:5]
NegativeFactors(feats, shap_values, loss2) ==
    Take(SortDesc(NegativeAppended(feats, shap_values, loss2)), TopNeg)

\* positive_factors.sort(key=contribution, reverse=True); positive_factors[:3]
PositiveFactors(feats, shap_values) ==
    Take(SortDesc(PositiveAppended(feats, shap_values)), TopPos)

\* the priority mark of a factor
Priority(idr, loss2) ==
    IF ShareAtLeast(idr, loss2, 15) THEN "red"
    ELSE IF ShareAtLeast(idr, loss2, 7) THEN "yellow" ELSE "green"

\* one recommendation; rec_effect is kept in tenths of an IDR
Recommendation(factor, loss2) ==
    LET n == Lower(factor.name)
        kind == IF Contains(n, (* "бюджет" *) <<1073,1102,1076,1078,1077,1090>>) THEN "budget"
                ELSE IF Contains(n, (* "время" *) <<1074,1088,1077,1084,1103>>) THEN "operations"
                ELSE IF Contains(n, (* "рейтинг" *) <<1088,1077,1081,1090,1080,1085,1075>>) THEN "service"
                ELSE "fix"
        tenths == IF kind = "budget" THEN 8
                  ELSE IF kind = "operations" THEN 6
                  ELSE IF kind = "service" THEN 7 ELSE 5
    IN [action |-> kind,
        target |-> IF kind = "fix" THEN n ELSE <<>>,
        priority |-> Priority(factor.k, loss2),
        rec_effect10 |-> factor.k * tenths]

\* recommendations for negative_factors[:3]
Recommendations(neg, loss2) ==
    [i \in 1..Min(TopRec, Len(neg)) |-> Recommendation(neg[i], loss2)]

\* total_potential, in tenths of an IDR
TotalPotential10(recs) == SumSeq([i \in 1..Len(recs) |-> recs[i].rec_effect10])

\* the calls on the artifact a day's analysis makes: load_artifacts, then
\* pre.transform, shap.TreeExplainer and explainer.shap_values; nowhere model.predict
CallsLoadOnly == <<"load_artifacts">>

CallsExplainerRaised == <<"load_artifacts", "pre.transform", "TreeExplainer">>

CallsAttributed == <<"load_artifacts", "pre.transform", "TreeExplainer", "shap_values">>

\* variant of the key figures that leaves the day's sales and loss out
BlockHeadNoFigures(d, day_sales, m2) ==
    [date |-> d, day_sales |-> 0, loss2 |-> 0,
     kind |-> "head", negative_factors |-> <<>>, positive_factors |-> <<>>,
     recommendations |-> <<>>, total_potential10 |-> 0, notice |-> FALSE,
     shap_values |-> <<>>, contributions |-> <<>>, negative_appended |-> <<>>,
     calls |-> CallsLoadOnly]

\* the key figures every block starts with; the try block begins with load_artifacts()
BlockHead(d, day_sales, m2) ==
    [date |-> d, day_sales |-> day_sales, loss2 |-> Loss2(m2, day_sales),
     kind |-> "head", negative_factors |-> <<>>, positive_factors |-> <<>>,
     recommendations |-> <<>>, total_potential10 |-> 0, notice |-> FALSE,
     shap_values |-> <<>>, contributions |-> <<>>, negative_appended |-> <<>>,
     calls |-> CallsLoadOnly]

\* variant of the handler that swallows the exception without a notice
MLExceptionBlockSilent(b) == [b EXCEPT !.kind = "ml_unavailable"]

\* except Exception as e: the ML-unavailable notice, appended in strict mode
MLExceptionBlock(b) ==
    [b EXCEPT !.kind = "ml_unavailable", !.notice = REPORT_STRICT_MODE]

\* The whole per-day function.  art: what load_artifacts finds; fault: the
\* construction of the explainer raises; is_holiday: day_data["is_holiday"];
\* shap_values: the explainer's row.  A block records what the day's lines show and,
\* for the days that reach the loop, the locals shap_values, the zip pairs and
\* negative_factors as it stands after the loop.  A holiday day raises NameError at
\* _check_holiday_by_date_simple, after its causes were appended.
AnalyzeCriticalDay(d, day_sales, m2, art, feats, fault, is_holiday, shap_values) ==
    LET head == BlockHead(d, day_sales, m2)
        loss2 == head.loss2
        neg == NegativeFactors(feats, shap_values, loss2)
        posf == PositiveFactors(feats, shap_values)
        recs == Recommendations(neg, loss2)
        attributed == [head EXCEPT !.calls = CallsAttributed,
                                   !.shap_values = shap_values,
                                   !.contributions = Contributions(feats, shap_values),
                                   !.negative_appended =
                                       NegativeAppended(feats, shap_values, loss2)]
        causes == [attributed EXCEPT !.negative_factors = neg]
    IN  IF art = "missing" THEN MLExceptionBlock(head)
        ELSE IF feats = <<>> /\ REPORT_STRICT_MODE
             THEN [head EXCEPT !.kind = "model_not_trained"]
        ELSE IF art = "columns_absent" /\ REPORT_STRICT_MODE
             THEN [head EXCEPT !.kind = "features_missing"]
        ELSE IF feats = <<>> \/ art = "columns_absent" THEN MLExceptionBlock(head)
        ELSE IF fault
             THEN MLExceptionBlock([head EXCEPT !.calls = CallsExplainerRaised])
        ELSE IF REPORT_STRICT_MODE /\ Len(neg) < MinFactors
             THEN [attributed EXCEPT !.kind = "few_factors"]
        ELSE IF is_holiday = 1 THEN MLExceptionBlock(causes)
        ELSE [causes EXCEPT !.kind = "full", !.positive_factors = posf,
                            !.recommendations = recs,
                            !.total_potential10 = TotalPotential10(recs)]

\* whether the try block of the per-day function raised
AnalysisRaised(art, feats, fault, is_holiday, shap_values, loss2) ==
    \/ art = "missing"
    \/ /\ ~REPORT_STRICT_MODE
       /\ (feats = <<>> \/ art = "columns_absent")
    \/ /\ art = "ok" /\ feats # <<>>
       /\ \/ fault
          \/ /\ is_holiday = 1
             /\ ~(REPORT_STRICT_MODE
                  /\ Len(NegativeFactors(feats, shap_values, loss2)) < MinFactors)

(***************************************************************************)
(* Feature-group resolver: _resolve_preprocessed_feature_groups            *)
(***************************************************************************)
RECURSIVE Flatten(_)
Flatten(ss) == IF ss = <<>> THEN <<>> ELSE ss[1] \o Flatten(Tail(ss))

\* transformer.get_feature_names_out(cols): the imputer keeps the column names,
\* the one-hot pipeline emits "<col>_<category>" per learned category
LocalNames(t) ==
    IF t.kind = "SimpleImputer" THEN t.cols
    ELSE Flatten([i \in 1..Len(t.cols) |->
                    [j \in 1..Len(t.cats[i]) |-> t.cols[i] \o <<95>> \o t.cats[i][j]]])

\* nm == c or nm.startswith(f"{c}_")
NameMatches(nm, c) == nm = c \/ StartsWith(nm, c \o <<95>>)

\* groups.setdefault(c, []).append(idx + j) for every matching j (0-based)
RECURSIVE AddGroups(_, _, _, _)
AddGroups(cols, local_names, idx, grps) ==
    IF cols = <<>> THEN grps
    ELSE LET c == cols[1]
             js == FilterIdx([j \in 1..Len(local_names) |-> j],
                             {j \in 1..Len(local_names) : NameMatches(local_names[j], c)})
             add == [p \in 1..Len(js) |-> idx + js[p] - 1]
             next == IF js = <<>> THEN grps
                     ELSE [x \in DOMAIN grps \cup {c} |->
                              IF x = c THEN (IF c \in DOMAIN grps THEN grps[c] ELSE <<>>) \o add
                              ELSE grps[x]]
         IN AddGroups(Tail(cols), local_names, idx, next)

RECURSIVE ResolveFrom(_, _, _, _)
ResolveFrom(ts, idx, names, grps) ==
    IF ts = <<>> THEN [names_out |-> names, groups |-> grps]
    ELSE IF ts[1].name = "remainder" /\ ts[1].kind = "drop"
         THEN ResolveFrom(Tail(ts), idx, names, grps)
    ELSE LET local_names == LocalNames(ts[1])
         IN ResolveFrom(Tail(ts), idx + Len(local_names), names \o local_names,
                        AddGroups(ts[1].cols, local_names, idx, grps))

resolve_preprocessed_feature_groups(p) == ResolveFrom(p, 0, <<>>, <<>>)

\* number of columns of pre.transform(X)
PreWidth(p) == Len(Flatten([i \in 1..Len(p) |->
                    IF p[i].kind = "drop" THEN <<>> ELSE LocalNames(p[i])]))

\* feat_cols of build_preprocessor: numeric_cols + categorical_cols
FeatureList(p) == p[1].cols \o p[2].cols

(***************************************************************************)
(* The section: _section8_critical_days_ml                                 *)
(***************************************************************************)
NoBlocks == <<>>

\* from the entry of the function to the first critical day (or an early return)
Section8Start ==
    /\ pc = "start"
    /\ LET m2 == Median2(sub)
           crit == CriticalDates(sub, m2)
       IN  IF ~csv_readable
           THEN /\ result' = "error"
                /\ pc' = "done"
                /\ UNCHANGED <<median2, critical_dates>>
           ELSE IF sub = <<>>
           THEN /\ result' = "no_data"
                /\ pc' = "done"
                /\ UNCHANGED <<median2, critical_dates>>
           ELSE IF InsufficientData(sub)
           THEN /\ result' = "insufficient_data"
                /\ pc' = "done"
                /\ UNCHANGED <<median2, critical_dates>>
           ELSE IF crit = <<>>
           THEN /\ result' = "no_critical_days"
                /\ pc' = "done"
                /\ median2' = m2
                /\ critical_dates' = crit
           ELSE /\ result' = "pending"
                /\ pc' = "days"
                /\ median2' = m2
                /\ critical_dates' = crit
    /\ pos' = 1
    /\ UNCHANGED <<csv_readable, sub, artifact, pre, features, shap_row, blocks, raised,
                   names_out, groups>>
    /\ UNCHANGED extraVars

\* one iteration of "for critical_date in critical_dates"
AnalyzeDay ==
    /\ pc = "days"
    /\ pos <= Len(critical_dates)
    /\ \E fault \in BOOLEAN, is_holiday \in {0, 1},
          row \in [1..PreWidth(pre) -> ShapVals] :
        LET d == critical_dates[pos]
            reaches == artifact = "ok" /\ ~fault
            b == AnalyzeCriticalDay(d, sub[d], median2, artifact, features,
                                    fault, is_holiday, row)
        IN  /\ shap_row # <<>> => row = shap_row
            /\ shap_row' = IF reaches THEN row ELSE shap_row
            /\ blocks' = Append(blocks, b)
            /\ raised' = IF AnalysisRaised(artifact, features, fault, is_holiday, row,
                                           Loss2(median2, sub[d]))
                         THEN raised \cup {d} ELSE raised
    /\ pos' = pos + 1
    /\ UNCHANGED <<csv_readable, sub, artifact, pre, features, pc, result, median2,
                   critical_dates, names_out, groups>>
    /\ UNCHANGED extraVars

\* variant of the return that leaves the loop after the first flagged day
Section8FinishAfterFirstDay ==
    /\ pc = "days"
    /\ pos > 1
    /\ result' = "report"
    /\ pc' = "done"
    /\ UNCHANGED <<csv_readable, sub, artifact, pre, features, shap_row, median2,
                   critical_dates, pos, blocks, raised, names_out, groups>>
    /\ UNCHANGED extraVars

\* the summary after the loop and the return of the section
Section8Finish ==
    /\ pc = "days"
    /\ pos > Len(critical_dates)
    /\ result' = "report"
    /\ pc' = "done"
    /\ UNCHANGED <<csv_readable, sub, artifact, pre, features, shap_row, median2,
                   critical_dates, pos, blocks, raised, names_out, groups>>
    /\ UNCHANGED extraVars

\* a caller resolves the feature groups of the loaded preprocessor
ResolveGroups ==
    /\ pc = "resolver"
    /\ LET r == resolve_preprocessed_feature_groups(pre)
       IN /\ names_out' = r.names_out
          /\ groups' = r.groups
    /\ pc' = "resolved"
    /\ UNCHANGED <<csv_readable, sub, artifact, pre, features, shap_row, result, median2,
                   critical_dates, pos, blocks, raised>>
    /\ UNCHANGED extraVars

(***************************************************************************)
(* Initial states and specifications                                       *)
(***************************************************************************)
Windows == UNION {[1..n -> SalesVals] : n \in 0..MaxDays}

Artifacts == {"ok", "missing", "empty_features", "columns_absent"}

\* no sync has run: the table is empty and no request is in flight
EtlIdle ==
    /\ sync = <<>>
    /\ raw_stats = <<>>
    /\ request = <<>>
    /\ api = 0

\* nothing of ml/inference.py has run, the globals are None, no request is in flight
ExtraIdle ==
    /\ call = "none"
    /\ explainer_log = <<>>
    /\ outcome = [status |-> "none", top_factors |-> <<>>]
    /\ feature_imp = <<>>
    /\ instance = [g \in {"adapter", "analyzer"} |-> 0]
    /\ created = [g \in {"adapter", "analyzer"} |-> 0]
    /\ thread = <<>>
    /\ selection = <<>>
    /\ canon = <<>>
    /\ EtlIdle

InitCommon ==
    /\ ExtraIdle
    /\ shap_row = <<>>
    /\ pc = "start"
    /\ result = "none"
    /\ median2 = 0
    /\ critical_dates = <<>>
    /\ pos = 1
    /\ blocks = NoBlocks
    /\ raised = {}
    /\ names_out = <<>>
    /\ groups = <<>>

\* any window of up to MaxDays days, the two-feature artifact
Init ==
    /\ csv_readable \in BOOLEAN
    /\ sub \in Windows
    /\ csv_readable = FALSE => sub = <<>>
    /\ artifact \in Artifacts
    /\ pre = PreSmall
    /\ features = IF artifact = "empty_features" THEN <<>> ELSE FeatureList(pre)
    /\ InitCommon

Next == Section8Start \/ AnalyzeDay \/ Section8Finish

Spec == Init /\ [][Next]_vars

\* windows of MinDays days with one low day, the larger artifacts
DayWindows ==
    {[i \in 1..MinDays |-> IF i = MinDays THEN w[1] ELSE w[2]] :
        w \in {v \in SalesVals \X SalesVals : v[1] < v[2]}}

InitDay ==
    /\ csv_readable = TRUE
    /\ sub \in DayWindows
    /\ artifact = "ok"
    /\ pre \in {PreFull, PreCat}
    /\ features = FeatureList(pre)
    /\ InitCommon

SpecDay == InitDay /\ [][Next]_vars

\* column names of the numeric transformer and of the one-hot pipeline
NumNames == { (* "rain" *) <<114,97,105,110>>, (* "rain_lag_1" *) <<114,97,105,110,95,108,97,103,95,49>>, (* "temp" *) <<116,101,109,112>>, (* "tourist_flow" *) <<116,111,117,114,105,115,116,95,102,108,111,119>> }

CatNames == { (* "platform" *) <<112,108,97,116,102,111,114,109>> }

CatValues == { <<>>, << (* "grab" *) <<103,114,97,98>> >>, << (* "grab" *) <<103,114,97,98>>, (* "gojek" *) <<103,111,106,101,107>> >> }

MaxCols == 3

InjectiveSeqs(S, n) ==
    UNION {{s \in [1..m -> S] : \A i, j \in 1..m : i # j => s[i] # s[j]} : m \in 0..n}

InitResolver ==
    /\ \E numeric_cols \in InjectiveSeqs(NumNames, MaxCols),
          categorical_cols \in InjectiveSeqs(CatNames, 1) :
        \E cats \in [1..Len(categorical_cols) -> CatValues] :
            pre = MakePre(numeric_cols, categorical_cols, cats)
    /\ features = FeatureList(pre)
    /\ ExtraIdle
    /\ csv_readable = FALSE
    /\ sub = <<>>
    /\ artifact = "ok"
    /\ shap_row = <<>>
    /\ pc = "resolver"
    /\ result = "none"
    /\ median2 = 0
    /\ critical_dates = <<>>
    /\ pos = 1
    /\ blocks = NoBlocks
    /\ raised = {}
    /\ names_out = <<>>
    /\ groups = <<>>

NextResolver == ResolveGroups

SpecResolver == InitResolver /\ [][NextResolver]_vars

(***************************************************************************)
(* ml/inference.py: predict_with_shap, predict_and_explain, top_factors    *)
(***************************************************************************)
\* float(abs_shap[:, indices].mean()) for one feature, kept as <<sum, count>>
GroupImportance(indices, shap_values) ==
    <<SumSeq([p \in 1..Len(indices) |-> Abs(shap_values[indices[p] + 1])]), Len(indices)>>

\* feature_imp: for orig_feat, indices in groups.items()
FeatureImp(grps, shap_values) ==
    [c \in DOMAIN grps |-> GroupImportance(grps[c], shap_values)]

\* predict_with_shap: the interventional explainer inside try, the default
\* TreeExplainer(model_step) in the except branch
ExplainWithFallback(primary_raises, permissive_raises) ==
    IF ~primary_raises THEN [log |-> <<"interventional">>, ok |-> TRUE]
    ELSE [log |-> <<"interventional", "default">>, ok |-> ~permissive_raises]

\* predict_and_explain: the interventional explainer, no handler around it
ExplainOnce(primary_raises) ==
    [log |-> <<"interventional">>, ok |-> ~primary_raises]

\* is_excluded of top_factors: ^orders_count(?!.*conversion).*, ^total_sales.*, ^restaurant_id$
IsExcluded(name) ==
    \/ StartsWith(name, (* "orders_count" *) <<111,114,100,101,114,115,95,99,111,117,110,116>>) /\ ~Contains(name, (* "conversion" *) <<99,111,110,118,101,114,115,105,111,110>>)
    \/ StartsWith(name, (* "total_sales" *) <<116,111,116,97,108,95,115,97,108,101,115>>)
    \/ name = (* "restaurant_id" *) <<114,101,115,116,97,117,114,97,110,116,95,105,100>>

\* sorted(filtered.items(), key=impact, reverse=True) over <<sum, count>> means, stable
RECURSIVE SortByImpact(_)
SortByImpact(s) ==
    IF s = <<>> THEN <<>>
    ELSE LET init == SortByImpact(SubSeq(s, 1, Len(s) - 1))
             x == s[Len(s)]
             p == Cardinality({i \in 1..Len(init) :
                      init[i].imp[1] * x.imp[2] >= x.imp[1] * init[i].imp[2]})
         IN SubSeq(init, 1, p) \o <<x>> \o SubSeq(init, p + 1, Len(init))

\* top_factors(feature_imp, top_k): the features of the result, in order.
\* order: the insertion order of the dict feature_imp
top_factors(order, imp, top_k) ==
    LET present == FilterIdx([i \in 1..Len(order) |-> i],
                             {i \in 1..Len(order) : order[i] \in DOMAIN imp})
        all == [j \in 1..Len(present) |->
                   [feature |-> order[present[j]], imp |-> imp[order[present[j]]]]]
        keep == FilterIdx([j \in 1..Len(all) |-> j],
                          {j \in 1..Len(all) : ~IsExcluded(all[j].feature)})
        filtered == IF keep = <<>> THEN all ELSE [j \in 1..Len(keep) |-> all[keep[j]]]
        items == SortByImpact(filtered)
    IN [j \in 1..Min(top_k, Len(items)) |-> items[j].feature]

\* top_k of the call in predict_and_explain's signature
DefaultTopK == 10

\* predict_with_shap(df) for a one-row frame whose Shapley row is shap_row
PredictWithShap ==
    /\ pc = "inference"
    /\ \E primary_raises \in BOOLEAN, permissive_raises \in BOOLEAN :
        LET e == ExplainWithFallback(primary_raises, permissive_raises)
            r == resolve_preprocessed_feature_groups(pre)
        IN  IF artifact = "missing"
            THEN /\ explainer_log' = <<>>
                 /\ outcome' = [status |-> "raised", top_factors |-> <<>>]
                 /\ UNCHANGED <<names_out, groups, feature_imp>>
            ELSE IF ~e.ok
            THEN /\ explainer_log' = e.log
                 /\ outcome' = [status |-> "raised", top_factors |-> <<>>]
                 /\ UNCHANGED <<names_out, groups, feature_imp>>
            ELSE /\ explainer_log' = e.log
                 /\ outcome' = [status |-> "returned", top_factors |-> <<>>]
                 /\ names_out' = r.names_out
                 /\ groups' = r.groups
                 /\ feature_imp' = FeatureImp(r.groups, shap_row)
    /\ call' = "predict_with_shap"
    /\ pc' = "inferred"
    /\ UNCHANGED <<csv_readable, sub, artifact, pre, features, shap_row, result, median2,
                   critical_dates, pos, blocks, raised, instance, created, thread,
                   selection, canon, etlVars>>

\* predict_and_explain(df) for a one-row frame whose Shapley row is shap_row
PredictAndExplain ==
    /\ pc = "inference"
    /\ \E primary_raises \in BOOLEAN :
        LET e == ExplainOnce(primary_raises)
            r == resolve_preprocessed_feature_groups(pre)
            imp == FeatureImp(r.groups, shap_row)
        IN  IF artifact = "missing"
            THEN /\ explainer_log' = <<>>
                 /\ outcome' = [status |-> "raised", top_factors |-> <<>>]
                 /\ UNCHANGED <<names_out, groups, feature_imp>>
            ELSE IF ~e.ok
            THEN /\ explainer_log' = e.log
                 /\ outcome' = [status |-> "raised", top_factors |-> <<>>]
                 /\ UNCHANGED <<names_out, groups, feature_imp>>
            ELSE /\ explainer_log' = e.log
                 /\ outcome' = [status |-> "returned",
                                top_factors |-> top_factors(features, imp, DefaultTopK)]
                 /\ names_out' = r.names_out
                 /\ groups' = r.groups
                 /\ feature_imp' = imp
    /\ call' = "predict_and_explain"
    /\ pc' = "inferred"
    /\ UNCHANGED <<csv_readable, sub, artifact, pre, features, shap_row, result, median2,
                   critical_dates, pos, blocks, raised, instance, created, thread,
                   selection, canon, etlVars>>

\* the preprocessors of the inference specification
InferencePres ==
    { PreSmall, PreCat,
      MakePre(<< (* "rain" *) <<114,97,105,110>>, (* "rain_lag_1" *) <<114,97,105,110,95,108,97,103,95,49>> >>, <<>>, <<>>),
      MakePre(<< (* "restaurant_id" *) <<114,101,115,116,97,117,114,97,110,116,95,105,100>>, (* "rain" *) <<114,97,105,110>> >>, << (* "platform" *) <<112,108,97,116,102,111,114,109>> >>, << << (* "grab" *) <<103,114,97,98>> >> >>) }

InitInference ==
    /\ pre \in InferencePres
    /\ features = FeatureList(pre)
    /\ shap_row \in [1..PreWidth(pre) -> ShapVals]
    /\ artifact \in {"ok", "missing"}
    /\ pc = "inference"
    /\ ExtraIdle
    /\ csv_readable = FALSE
    /\ sub = <<>>
    /\ result = "none"
    /\ median2 = 0
    /\ critical_dates = <<>>
    /\ pos = 1
    /\ blocks = NoBlocks
    /\ raised = {}
    /\ names_out = <<>>
    /\ groups = <<>>

NextInference == PredictWithShap \/ PredictAndExplain

SpecInference == InitInference /\ [][NextInference]_vars

(***************************************************************************)
(* The lazily created globals: get_data_adapter, get_sales_analyzer        *)
(***************************************************************************)
\* request threads that call a getter
Requests == 2

Getters == {"adapter", "analyzer"}

\* a thread that has not called yet
IdleThread ==
    [pc |-> "idle", getter |-> "none", nested |-> FALSE, tmp |-> 0, adapter |-> 0, got |-> 0]

\* the variables the getters leave alone
sectionVars == <<csv_readable, sub, artifact, pre, features, shap_row, pc, result, median2,
                 critical_dates, pos, blocks, raised, names_out, groups,
                 call, explainer_log, outcome, feature_imp, selection, canon, etlVars>>

\* thread t of a request is at step p of a getter
AtStep(t, p) ==
    /\ pc = "requests"
    /\ thread[t].pc = p
    /\ UNCHANGED sectionVars

\* a request calls get_data_adapter() or get_sales_analyzer()
CallGetter(t) ==
    /\ AtStep(t, "idle")
    /\ \E g \in Getters :
        thread' = [thread EXCEPT ![t].getter = g,
                                 ![t].pc = IF g = "adapter" THEN "a_check" ELSE "z_check"]
    /\ UNCHANGED <<instance, created>>

\* get_data_adapter: if _data_adapter is None
AdapterCheck(t) ==
    /\ AtStep(t, "a_check")
    /\ thread' = [thread EXCEPT ![t].pc = IF instance["adapter"] = 0
                                          THEN "a_construct" ELSE "a_return"]
    /\ UNCHANGED <<instance, created>>

\* get_data_adapter: DataAdapter(), the right-hand side of the assignment
AdapterConstruct(t) ==
    /\ AtStep(t, "a_construct")
    /\ created' = [created EXCEPT !["adapter"] = @ + 1]
    /\ thread' = [thread EXCEPT ![t].tmp = created["adapter"] + 1, ![t].pc = "a_assign"]
    /\ UNCHANGED instance

\* get_data_adapter: _data_adapter = <the new object>
AdapterAssign(t) ==
    /\ AtStep(t, "a_assign")
    /\ instance' = [instance EXCEPT !["adapter"] = thread[t].tmp]
    /\ thread' = [thread EXCEPT ![t].pc = "a_return"]
    /\ UNCHANGED created

\* get_data_adapter: return _data_adapter, to the request or to SalesAnalyzer.__init__
AdapterReturn(t) ==
    /\ AtStep(t, "a_return")
    /\ thread' = IF thread[t].nested
                 THEN [thread EXCEPT ![t].adapter = instance["adapter"], ![t].pc = "z_init"]
                 ELSE [thread EXCEPT ![t].got = instance["adapter"], ![t].pc = "done"]
    /\ UNCHANGED <<instance, created>>

\* get_sales_analyzer: if _analyzer is None
AnalyzerCheck(t) ==
    /\ AtStep(t, "z_check")
    /\ thread' = [thread EXCEPT ![t].pc = IF instance["analyzer"] = 0
                                          THEN "z_construct" ELSE "z_return"]
    /\ UNCHANGED <<instance, created>>

\* SalesAnalyzer.__init__: self.adapter = get_data_adapter()
AnalyzerConstruct(t) ==
    /\ AtStep(t, "z_construct")
    /\ thread' = [thread EXCEPT ![t].nested = TRUE, ![t].pc = "a_check"]
    /\ UNCHANGED <<instance, created>>

\* SalesAnalyzer.__init__: self.restaurants = ...; the object exists
AnalyzerInit(t) ==
    /\ AtStep(t, "z_init")
    /\ created' = [created EXCEPT !["analyzer"] = @ + 1]
    /\ thread' = [thread EXCEPT ![t].tmp = created["analyzer"] + 1, ![t].nested = FALSE,
                                ![t].pc = "z_assign"]
    /\ UNCHANGED instance

\* get_sales_analyzer: _analyzer = <the new object>
AnalyzerAssign(t) ==
    /\ AtStep(t, "z_assign")
    /\ instance' = [instance EXCEPT !["analyzer"] = thread[t].tmp]
    /\ thread' = [thread EXCEPT ![t].pc = "z_return"]
    /\ UNCHANGED created

\* get_sales_analyzer: return _analyzer
AnalyzerReturn(t) ==
    /\ AtStep(t, "z_return")
    /\ thread' = [thread EXCEPT ![t].got = instance["analyzer"], ![t].pc = "done"]
    /\ UNCHANGED <<instance, created>>

InitSingleton ==
    /\ thread = [t \in 1..Requests |-> IdleThread]
    /\ selection = <<>>
    /\ canon = <<>>
    /\ EtlIdle
    /\ instance = [g \in Getters |-> 0]
    /\ created = [g \in Getters |-> 0]
    /\ call = "none"
    /\ explainer_log = <<>>
    /\ outcome = [status |-> "none", top_factors |-> <<>>]
    /\ feature_imp = <<>>
    /\ pre = PreSmall
    /\ features = FeatureList(pre)
    /\ artifact = "ok"
    /\ shap_row = <<>>
    /\ pc = "requests"
    /\ csv_readable = FALSE
    /\ sub = <<>>
    /\ result = "none"
    /\ median2 = 0
    /\ critical_dates = <<>>
    /\ pos = 1
    /\ blocks = NoBlocks
    /\ raised = {}
    /\ names_out = <<>>
    /\ groups = <<>>

NextSingleton ==
    \E t \in 1..Requests :
        \/ CallGetter(t)
        \/ AdapterCheck(t)
        \/ AdapterConstruct(t)
        \/ AdapterAssign(t)
        \/ AdapterReturn(t)
        \/ AnalyzerCheck(t)
        \/ AnalyzerConstruct(t)
        \/ AnalyzerInit(t)
        \/ AnalyzerAssign(t)
        \/ AnalyzerReturn(t)

SpecSingleton == InitSingleton /\ [][NextSingleton]_vars

(***************************************************************************)
(* The factor selection of one flagged day under other thresholds          *)
(***************************************************************************)
\* values of MIN_NEG_SHARE, in percent; 2 is the value of the source
ShareGrid == {0, 1, MIN_NEG_SHARE_PCT, 3, 5, 50}

\* values of MIN_NEG_IDR; 100000 is the value of the source
MoneyGrid == {0, 50000, MIN_NEG_IDR, 150000, 7000000}

\* len(negative_factors) after the sort and the cut [:5]
SelectedCount(feats, shap_values, loss2, pct, min_idr) ==
    Len(Take(SortDesc(NegativeAppendedWith(feats, shap_values, loss2, pct, min_idr)), TopNeg))

\* the selection of flagged day d, once per pair of thresholds
SelectUnderThresholds ==
    /\ pc = "thresholds"
    /\ \E j \in 1..Len(critical_dates) :
        LET d == critical_dates[j]
            loss2 == Loss2(median2, sub[d])
        IN selection' = [day |-> d, loss2 |-> loss2,
                         count |-> [p \in ShareGrid \X MoneyGrid |->
                                      SelectedCount(features, shap_row, loss2, p[1], p[2])]]
    /\ pc' = "selected"
    /\ UNCHANGED <<csv_readable, sub, artifact, pre, features, shap_row, result, median2,
                   critical_dates, pos, blocks, raised, names_out, groups,
                   call, explainer_log, outcome, feature_imp, instance, created, thread, canon, etlVars>>

\* the section has found the flagged days of a window; contributions and shortfall are fixed
InitThresholds ==
    /\ csv_readable = TRUE
    /\ sub \in DayWindows
    /\ artifact = "ok"
    /\ pre = PreFull
    /\ features = FeatureList(pre)
    /\ shap_row \in [1..PreWidth(pre) -> ShapVals]
    /\ median2 = Median2(sub)
    /\ critical_dates = CriticalDates(sub, median2)
    /\ pc = "thresholds"
    /\ result = "none"
    /\ pos = 1
    /\ blocks = NoBlocks
    /\ raised = {}
    /\ names_out = <<>>
    /\ groups = <<>>
    /\ ExtraIdle

NextThresholds == SelectUnderThresholds

SpecThresholds == InitThresholds /\ [][NextThresholds]_vars

(***************************************************************************)
(* _normalize_feature_name applied to a name, then to its own label        *)
(***************************************************************************)
NamePrefixes == { <<>>, (* "mkt_" *) <<109,107,116,95>>, (* "ops_" *) <<111,112,115,95>>, (* "grab_" *) <<103,114,97,98,95>> }

NameStems == { (* "roas" *) <<114,111,97,115>>, (* "ads_spend" *) <<97,100,115,95,115,112,101,110,100>>, (* "ads_sales" *) <<97,100,115,95,115,97,108,101,115>>, (* "preparation_time" *) <<112,114,101,112,97,114,97,116,105,111,110,95,116,105,109,101>>, (* "prep_time" *) <<112,114,101,112,95,116,105,109,101>>,
               (* "accepting_time" *) <<97,99,99,101,112,116,105,110,103,95,116,105,109,101>>, (* "confirm_time" *) <<99,111,110,102,105,114,109,95,116,105,109,101>>, (* "delivery_time" *) <<100,101,108,105,118,101,114,121,95,116,105,109,101>>, (* "rating" *) <<114,97,116,105,110,103>>,
               (* "cancelled_orders" *) <<99,97,110,99,101,108,108,101,100,95,111,114,100,101,114,115>>, (* "lost_orders" *) <<108,111,115,116,95,111,114,100,101,114,115>>, (* "rain" *) <<114,97,105,110>>, (* "Rain" *) <<82,97,105,110>>, (* "temp" *) <<116,101,109,112>>, (* "wind" *) <<119,105,110,100>>,
               (* "humidity" *) <<104,117,109,105,100,105,116,121>>, (* "temperature" *) <<116,101,109,112,101,114,97,116,117,114,101>>, (* "tourist_flow" *) <<116,111,117,114,105,115,116,95,102,108,111,119>>, (* "is_weekend" *) <<105,115,95,119,101,101,107,101,110,100>>, (* "orders" *) <<111,114,100,101,114,115>>,
               (* "offline_rate" *) <<111,102,102,108,105,110,101,95,114,97,116,101>>, (* "impressions" *) <<105,109,112,114,101,115,115,105,111,110,115>> }

NameSuffixes == { <<>>, (* "_grab" *) <<95,103,114,97,98>>, (* "_gojek" *) <<95,103,111,106,101,107>>, (* "_GRAB" *) <<95,71,82,65,66>>, (* "_mean" *) <<95,109,101,97,110>>, (* "_total" *) <<95,116,111,116,97,108>>, (* "_lag_1" *) <<95,108,97,103,95,49>> }

\* column names a feature list can hold
FeatureNames == {p \o s \o x : p \in NamePrefixes, s \in NameStems, x \in NameSuffixes}

\* normalized_name = _normalize_feature_name(feature)
Canonicalize ==
    /\ pc = "canon"
    /\ canon' = [canon EXCEPT !.once = normalize_feature_name(canon.name)]
    /\ pc' = "canon_once"
    /\ UNCHANGED <<csv_readable, sub, artifact, pre, features, shap_row, result, median2,
                   critical_dates, pos, blocks, raised, names_out, groups, call,
                   explainer_log, outcome, feature_imp, instance, created, thread, selection, etlVars>>

\* _normalize_feature_name applied to the label
Recanonicalize ==
    /\ pc = "canon_once"
    /\ canon' = [canon EXCEPT !.twice = normalize_feature_name(canon.once)]
    /\ pc' = "canon_twice"
    /\ UNCHANGED <<csv_readable, sub, artifact, pre, features, shap_row, result, median2,
                   critical_dates, pos, blocks, raised, names_out, groups, call,
                   explainer_log, outcome, feature_imp, instance, created, thread, selection, etlVars>>

InitCanon ==
    /\ \E f \in FeatureNames : canon = [name |-> f, once |-> <<>>, twice |-> <<>>]
    /\ pc = "canon"
    /\ csv_readable = FALSE
    /\ sub = <<>>
    /\ artifact = "ok"
    /\ pre = PreSmall
    /\ features = FeatureList(pre)
    /\ shap_row = <<>>
    /\ result = "none"
    /\ median2 = 0
    /\ critical_dates = <<>>
    /\ pos = 1
    /\ blocks = NoBlocks
    /\ raised = {}
    /\ names_out = <<>>
    /\ groups = <<>>
    /\ call = "none"
    /\ explainer_log = <<>>
    /\ outcome = [status |-> "none", top_factors |-> <<>>]
    /\ feature_imp = <<>>
    /\ instance = [g \in Getters |-> 0]
    /\ created = [g \in Getters |-> 0]
    /\ thread = <<>>
    /\ selection = <<>>
    /\ EtlIdle

NextCanon == Canonicalize \/ Recanonicalize

SpecCanon == InitCanon /\ [][NextCanon]_vars

(***************************************************************************)
(* Windows with days of no sales                                           *)
(***************************************************************************)
\* daily totals of a restaurant that was closed on some days
ClosedDayVals == {0, 7000000, 10000000}

\* windows that pass the length check, of odd and of even length
ClosedDayWindows == UNION {[1..n -> ClosedDayVals] : n \in MinDays..(MinDays + 1)}

InitClosedDays ==
    /\ csv_readable = TRUE
    /\ sub \in ClosedDayWindows
    /\ artifact = "missing"
    /\ pre = PreSmall
    /\ features = FeatureList(pre)
    /\ InitCommon

SpecClosedDays == InitClosedDays /\ [][Next]_vars

(***************************************************************************)
(* etl/api_client.py: _make_request, upsert_stats_data, run_incremental_sync *)
(***************************************************************************)
RETRIES == 3

CHUNK_DAYS == 14

\* "start_date = end_date - timedelta(days=90)" when the table holds no row
LookbackDays == 90

\* "if total_records_updated >= 30": a retrain job is queued
RetrainThreshold == 30

\* date.today() - 1 as a day number; day 1 is LookbackDays before it
Yesterday == 91

\* calls of run_incremental_sync in one behaviour
MaxSyncs == 2

\* start_date of a call: None (0) or a given day
StartChoices == {0, 64, 78}

\* the dates of a window
Days(from, to) == from..to

\* variant of the loop test that allows one attempt more
MayAttemptOnceMore(attempts) == attempts <= RETRIES

\* for attempt in range(RETRIES)
MayAttempt(attempts) == attempts < RETRIES

\* variant of the upsert without "WHERE raw_stats.row_hash <> EXCLUDED.row_hash"
upsert_without_hash_test(stored, dates, h) ==
    [table |-> [d \in DOMAIN stored \cup dates |-> IF d \in dates THEN h ELSE stored[d]],
     count |-> Cardinality(dates)]

\* INSERT ... ON CONFLICT (restaurant_name, source, stat_date) DO UPDATE ...
\* WHERE raw_stats.row_hash <> EXCLUDED.row_hash; cursor.rowcount counts the rows
\* inserted or updated.  dates: the stat_date of each row, h: their row_hash.
upsert_stats_data(stored, dates, h) ==
    LET changed == {d \in dates : d \notin DOMAIN stored \/ stored[d] # h}
    IN [table |-> [d \in DOMAIN stored \cup dates |-> IF d \in changed THEN h ELSE stored[d]],
        count |-> Cardinality(changed)]

\* SELECT MAX(stat_date): 0 stands for None
get_last_loaded_date(stored) ==
    IF DOMAIN stored = {} THEN 0
    ELSE CHOOSE d \in DOMAIN stored : \A e \in DOMAIN stored : e <= d

\* current_end = min(current_start + timedelta(days=CHUNK_DAYS - 1), end_date)
ChunkEnd(current_start, end_date) == Min(current_start + CHUNK_DAYS - 1, end_date)

\* variant of the step that starts the next chunk on the last day of this one
NextStartOverlapping(current_end) == current_end

\* current_start = current_end + timedelta(days=1)
NextStart(current_end) == current_end + 1

\* no call of _make_request is in progress
NoRequest == [log |-> <<>>, status |-> "idle"]

\* fetch_restaurant_stats enters _make_request
NewRequest == [log |-> <<>>, status |-> "pending"]

\* before the first call of run_incremental_sync.  wanted, before and served record the
\* dates asked for so far, the table at the entry of the call and the hash the API
\* serves during the call.
NoSync ==
    [n |-> 0, pc |-> "idle", explicit |-> FALSE, start_date |-> 0, end_date |-> 0,
     current_start |-> 0, current_end |-> 0, total_records_updated |-> 0, chunks |-> <<>>,
     status |-> "none", refreshed |-> FALSE, retrain |-> FALSE, wanted |-> {}, before |-> <<>>,
     served |-> 0]

\* the variables run_incremental_sync leaves alone
reportVars == <<csv_readable, sub, artifact, pre, features, shap_row, pc, result, median2,
                critical_dates, pos, blocks, raised, names_out, groups, call, explainer_log,
                outcome, feature_imp, instance, created, thread, selection, canon>>

\* run_incremental_sync up to the first chunk's request, or its early return
SyncStart ==
    /\ pc = "etl"
    /\ sync.pc \in {"idle", "done"}
    /\ sync.n < MaxSyncs
    /\ \E given \in StartChoices, query_raises \in BOOLEAN :
        LET end_date == Yesterday
            \* get_last_loaded_date returns None when its query raises
            last_date == IF query_raises THEN 0 ELSE get_last_loaded_date(raw_stats)
            start_date == IF given # 0 THEN given
                          ELSE IF last_date # 0 THEN last_date + 1
                          ELSE end_date - LookbackDays
            call_ == [sync EXCEPT !.n = @ + 1, !.explicit = given # 0,
                                  !.start_date = start_date, !.end_date = end_date,
                                  !.total_records_updated = 0, !.chunks = <<>>,
                                  !.refreshed = FALSE, !.retrain = FALSE,
                                  !.before = raw_stats, !.served = api]
        IN IF start_date > end_date
           THEN /\ sync' = [call_ EXCEPT !.status = "up_to_date", !.pc = "done",
                                         !.current_start = start_date, !.current_end = 0]
                /\ request' = NoRequest
           ELSE /\ sync' = [call_ EXCEPT !.status = "running", !.pc = "chunk",
                                         !.current_start = start_date,
                                         !.current_end = ChunkEnd(start_date, end_date),
                                         !.wanted = @ \cup Days(start_date, end_date)]
                /\ request' = NewRequest
    /\ UNCHANGED <<raw_stats, api>>
    /\ UNCHANGED reportVars

\* _make_request: one pass of the loop, requests.get succeeds or raises
RequestAttempt ==
    /\ pc = "etl"
    /\ sync.pc = "chunk"
    /\ request.status = "pending"
    /\ MayAttempt(Len(request.log))
    /\ \E ok \in BOOLEAN :
        request' = IF ok THEN [log |-> Append(request.log, "ok"), status |-> "returned"]
                   ELSE [request EXCEPT !.log = Append(@, "failed")]
    /\ UNCHANGED <<sync, raw_stats, api>>
    /\ UNCHANGED reportVars

\* _make_request: raise RuntimeError after the loop
RequestGiveUp ==
    /\ pc = "etl"
    /\ sync.pc = "chunk"
    /\ request.status = "pending"
    /\ ~MayAttempt(Len(request.log))
    /\ request' = [request EXCEPT !.status = "raised"]
    /\ UNCHANGED <<sync, raw_stats, api>>
    /\ UNCHANGED reportVars

\* the sync after a chunk that succeeded (ok) or raised: the next pass of the while
\* loop or the end of the loop
AfterChunk(s, ok, updated) ==
    LET next == NextStart(s.current_end)
        done == [s EXCEPT !.chunks = Append(@, [from |-> s.current_start, to |-> s.current_end,
                                                 ok |-> ok, updated |-> updated]),
                          !.total_records_updated = @ + updated,
                          !.current_start = next]
    IN IF next <= s.end_date
       THEN [done EXCEPT !.current_end = ChunkEnd(next, s.end_date)]
       ELSE [done EXCEPT !.pc = "finish"]

\* the try block after the response: _normalize_api_data and upsert_stats_data, which
\* can raise on the database; the except branch logs and goes on
StoreChunk ==
    /\ pc = "etl"
    /\ sync.pc = "chunk"
    /\ request.status = "returned"
    /\ \E db_raises \in BOOLEAN :
        LET up == upsert_stats_data(raw_stats, Days(sync.current_start, sync.current_end), api)
        IN IF db_raises
           THEN /\ raw_stats' = raw_stats
                /\ sync' = AfterChunk(sync, FALSE, 0)
           ELSE /\ raw_stats' = up.table
                /\ sync' = AfterChunk(sync, TRUE, up.count)
    /\ request' = IF sync'.pc = "chunk" THEN NewRequest ELSE NoRequest
    /\ UNCHANGED api
    /\ UNCHANGED reportVars

\* except Exception: the request raised, the chunk is logged and skipped
SkipChunk ==
    /\ pc = "etl"
    /\ sync.pc = "chunk"
    /\ request.status = "raised"
    /\ sync' = AfterChunk(sync, FALSE, 0)
    /\ request' = IF sync'.pc = "chunk" THEN NewRequest ELSE NoRequest
    /\ UNCHANGED <<raw_stats, api>>
    /\ UNCHANGED reportVars

\* after the loop: refresh_materialized_view (which re-raises its error), the retrain job
SyncFinish ==
    /\ pc = "etl"
    /\ sync.pc = "finish"
    /\ \E refresh_raises \in BOOLEAN :
        sync' = IF sync.total_records_updated > 0
                THEN IF refresh_raises
                     THEN [sync EXCEPT !.pc = "done", !.status = "raised"]
                     ELSE [sync EXCEPT !.pc = "done", !.status = "success", !.refreshed = TRUE,
                                       !.retrain = sync.total_records_updated >= RetrainThreshold]
                ELSE [sync EXCEPT !.pc = "done", !.status = "success"]
    /\ UNCHANGED <<raw_stats, request, api>>
    /\ UNCHANGED reportVars

\* between two syncs the API starts to serve other figures for the same dates
ApiDataChanges ==
    /\ pc = "etl"
    /\ sync.pc = "done"
    /\ api = 1
    /\ api' = 2
    /\ UNCHANGED <<sync, raw_stats, request>>
    /\ UNCHANGED reportVars

InitSync ==
    /\ pc = "etl"
    /\ sync = NoSync
    /\ raw_stats = <<>>
    /\ request = NoRequest
    /\ api = 1
    /\ csv_readable = FALSE
    /\ sub = <<>>
    /\ artifact = "ok"
    /\ pre = PreSmall
    /\ features = FeatureList(pre)
    /\ shap_row = <<>>
    /\ result = "none"
    /\ median2 = 0
    /\ critical_dates = <<>>
    /\ pos = 1
    /\ blocks = NoBlocks
    /\ raised = {}
    /\ names_out = <<>>
    /\ groups = <<>>
    /\ call = "none"
    /\ explainer_log = <<>>
    /\ outcome = [status |-> "none", top_factors |-> <<>>]
    /\ feature_imp = <<>>
    /\ instance = [g \in Getters |-> 0]
    /\ created = [g \in Getters |-> 0]
    /\ thread = <<>>
    /\ selection = <<>>
    /\ canon = <<>>

NextSync ==
    \/ SyncStart
    \/ RequestAttempt
    \/ RequestGiveUp
    \/ StoreChunk
    \/ SkipChunk
    \/ SyncFinish
    \/ ApiDataChanges

SpecSync == InitSync /\ [][NextSync]_vars

\* the body of the while loop is sequential code: a started request or chunk goes on
ChunkStep == RequestAttempt \/ RequestGiveUp \/ StoreChunk \/ SkipChunk

\* the first call in a process, from its entry to its return
FirstSyncStart == sync.n = 0 /\ SyncStart

NextFirstSync == FirstSyncStart \/ ChunkStep \/ SyncFinish

SpecSyncLive == InitSync /\ [][NextFirstSync]_vars /\ WF_vars(ChunkStep)

(***************************************************************************)
(* Properties                                                              *)
(***************************************************************************)
Range(s) == {s[i] : i \in DOMAIN s}

\* the blocks of the days whose analysis reached the attribution loop
Attributed == {p \in DOMAIN blocks : blocks[p].shap_values # <<>>}

\* the labels of a list of factors
Labels(fs) == {fs[i].name : i \in DOMAIN fs}

\* the summed contribution of the entries of fs that carry label l
LabelTotal(fs, l) == SumSeq([i \in 1..Len(fs) |-> IF fs[i].name = l THEN fs[i].k ELSE 0])

\* the (feature, position) slots of the groups that hold column index k
GroupSlots(k) ==
    {cp \in UNION {{<<c, p>> : p \in DOMAIN groups[c]} : c \in DOMAIN groups} :
        groups[cp[1]][cp[2]] = k}

\* C1: the groups returned by _resolve_preprocessed_feature_groups cover every
\* preprocessed output column index exactly once: no column is missing from all
\* groups and no column appears in two groups, also when one feature name is a
\* prefix of another followed by "_".
C1_PartitionExactlyOnce ==
    pc = "resolved" =>
        \A k \in 0..(Len(names_out) - 1) : Cardinality(GroupSlots(k)) = 1

\* C2: for every flagged day the per-feature contributions of the attribution
\* step sum to the sum of the row's per-column Shapley values: no column's value
\* is dropped and none is counted twice.
C2_ContributionsSumToShapTotal ==
    \A p \in Attributed :
        SumSeq(blocks[p].contributions) = SumSeq(blocks[p].shap_values)

\* the number of days of the window whose total is below v, and at or below v
CountBelow(daily, v) == Cardinality({i \in DOMAIN daily : daily[i] < v})

CountAtMost(daily, v) == Cardinality({i \in DOMAIN daily : daily[i] <= v})

\* the value at rank k (from 0) of the window's daily totals
KthSmallest(daily, k) ==
    CHOOSE v \in Range(daily) : CountBelow(daily, v) <= k /\ k < CountAtMost(daily, v)

\* twice the median of the window's daily totals, by rank
WindowMedian2(daily) ==
    KthSmallest(daily, (Len(daily) - 1) \div 2) + KthSmallest(daily, Len(daily) \div 2)

\* the detector has run on the window
ThresholdComputed == pc = "days" \/ result \in {"no_critical_days", "report"}

\* C3: the critical-day detector returns exactly the dates whose daily total is
\* less than or equal to 0.70 times the median of the window's daily totals: no
\* date above the threshold is flagged, no date at or below it is left out.
C3_FlagsExactlyAtOrBelowThreshold ==
    ThresholdComputed =>
        /\ Range(critical_dates) =
               {d \in DOMAIN sub : 20 * sub[d] <= 7 * WindowMedian2(sub)}
        /\ Len(critical_dates) = Cardinality(Range(critical_dates))

\* a window with a day exactly at the threshold, a day below it and a day above it
C3_Witness ==
    /\ pc = "days"
    /\ \E d \in Range(critical_dates) : 20 * sub[d] = 7 * WindowMedian2(sub)
    /\ \E d \in Range(critical_dates) : 20 * sub[d] < 7 * WindowMedian2(sub)
    /\ \E d \in DOMAIN sub : d \notin Range(critical_dates)

\* nothing of the detection or of the per-day analysis has been computed
NothingComputed == median2 = 0 /\ critical_dates = <<>> /\ blocks = <<>>

\* C4 (as the code has it): a readable window of 1 to 6 days returns the
\* "insufficient data" message, an empty window returns the "no data for the
\* period" message; in both cases nothing raises, no median threshold is computed
\* and no day is flagged.  A window of at least 7 days never returns the
\* "insufficient data" message.
C4_ShortWindowMessage ==
    (pc = "done" /\ csv_readable) =>
        /\ Len(sub) \in 1..6 => (result = "insufficient_data" /\ NothingComputed)
        /\ Len(sub) = 0 => (result = "no_data" /\ NothingComputed)
        /\ Len(sub) >= 7 => result # "insufficient_data"

\* a six-day window that was turned away
C4_Witness ==
    pc = "done" /\ csv_readable /\ Len(sub) = 6 /\ result = "insufficient_data"

\* C4 (as stated): every window of fewer than 7 days returns the "insufficient
\* data" message with no threshold computed and no day flagged, and a window of
\* at least 7 days does not return it.
C4_AsStated ==
    (pc = "done" /\ csv_readable) =>
        /\ Len(sub) < 7 => (result = "insufficient_data" /\ NothingComputed)
        /\ Len(sub) >= 7 => result # "insufficient_data"

\* a negative value that passes the share threshold or the monetary threshold
SignificantEither(v, loss2) ==
    v < 0 /\ (ShareAtLeast(-v, loss2, MIN_NEG_SHARE_PCT) \/ -v >= MIN_NEG_IDR)

\* C5: before the count cap a negative contributor is kept if and only if its
\* share is at least the minimum share or its monetary impact is at least the
\* minimum amount; one that passes only one of the two is still kept.
C5_KeptOnEitherThreshold ==
    \A p \in Attributed :
        Len(blocks[p].negative_appended) =
            Cardinality({i \in DOMAIN blocks[p].contributions :
                            SignificantEither(blocks[p].contributions[i], blocks[p].loss2)})

\* label l is among the first TopNeg labels once the entries of fs are merged by label
RanksInTopAfterMerging(fs, l) ==
    Cardinality({m \in Labels(fs) : LabelTotal(fs, m) > LabelTotal(fs, l)}) < TopNeg

\* C6: canonicalization comes before the top-N cut: a cause that ranks within the
\* top N of the merged attribution set is among the negative factors shown for
\* the day, never dropped because variants of another cause took the slots.
C6_TopCutAfterMerging ==
    \A p \in DOMAIN blocks :
        blocks[p].negative_factors # <<>> =>
            \A l \in Labels(blocks[p].negative_appended) :
                RanksInTopAfterMerging(blocks[p].negative_appended, l)
                    => l \in Labels(blocks[p].negative_factors)

\* no two entries of fs carry the same label
DistinctLabels(fs) == \A i, j \in DOMAIN fs : i # j => fs[i].name # fs[j].name

\* C7: features with the same canonical label are collapsed into one entry, so no
\* label appears more than once in a day's negative or positive factors.
C7_OneEntryPerLabel ==
    \A p \in DOMAIN blocks :
        DistinctLabels(blocks[p].negative_factors) /\ DistinctLabels(blocks[p].positive_factors)

\* what a day's recommendations propose and the recovery each one estimates
RecoveryList(b) ==
    [i \in DOMAIN b.recommendations |->
        <<b.recommendations[i].action, b.recommendations[i].target,
          b.recommendations[i].rec_effect10>>]

\* C8: two flagged days with identical attributions and different realized sales
\* get the same recommendation list with the same estimated recovery amounts.
C8_RecommendationsIgnoreRealizedSales ==
    \A p, q \in Attributed :
        (/\ blocks[p].shap_values = blocks[q].shap_values
         /\ blocks[p].kind \in {"full", "few_factors"}
         /\ blocks[q].kind \in {"full", "few_factors"})
            => RecoveryList(blocks[p]) = RecoveryList(blocks[q])

\* C9: the total recovery potential of a flagged day is at most the day's
\* shortfall (median minus realized sales).
C9_RecoveryWithinShortfall ==
    \A p \in DOMAIN blocks :
        blocks[p].kind = "full" => blocks[p].total_potential10 <= 5 * blocks[p].loss2

\* C10: when the ML analysis of a flagged day raises, the day still appears in the
\* output, with the "ML analysis unavailable" notice; the days before and after it
\* are analysed and reported in order, and the section returns its report rather
\* than the error message.
C10_DayFailureIsolated ==
    /\ Len(blocks) <= Len(critical_dates)
    /\ \A p \in DOMAIN blocks :
        /\ blocks[p].date = critical_dates[p]
        /\ blocks[p].date \in raised => blocks[p].notice
    /\ pc = "days" => Len(blocks) = pos - 1
    /\ (pc = "done" /\ raised # {}) =>
            (result = "report" /\ Len(blocks) = Len(critical_dates))

\* a returned report with a failed day followed by a fully analysed day
C10_Witness ==
    /\ result = "report"
    /\ \E p, q \in DOMAIN blocks :
        /\ p < q
        /\ blocks[p].date \in raised
        /\ blocks[p].notice
        /\ blocks[q].kind = "full"

\* C11: on every path that computes Shapley values, a raising interventional
\* explainer is retried exactly once with the default explainer, and the call
\* gives up only when that retry raised too.
C11_ExplainerRetriedOnce ==
    (pc = "inferred" /\ outcome.status = "raised" /\ explainer_log # <<>>) =>
        explainer_log = <<"interventional", "default">>

\* the number of column indices the groups hold
MappedTotal == SumSeq([i \in 1..Len(features) |->
                   IF features[i] \in DOMAIN groups THEN Len(groups[features[i]]) ELSE 0])

\* C12: when the number of mapped column indices differs from the number of
\* preprocessed output columns, the attribution raises: no mapping with a
\* different total is returned and used to produce per-feature values.
C12_MismatchRaises ==
    (pc = "inferred" /\ outcome.status = "returned") =>
        MappedTotal = PreWidth(pre)

\* C13: with the model artifact missing or unloadable, every flagged day is still
\* reported with its baseline figures and the "ML analysis unavailable" notice,
\* with no causes and no recommendations, and the section returns its report.
C13_MissingArtifactDegrades ==
    artifact = "missing" =>
        /\ \A p \in DOMAIN blocks :
            /\ blocks[p].kind = "ml_unavailable"
            /\ blocks[p].notice
            /\ blocks[p].negative_factors = <<>>
            /\ blocks[p].positive_factors = <<>>
            /\ blocks[p].recommendations = <<>>
            /\ blocks[p].day_sales = sub[blocks[p].date]
            /\ blocks[p].loss2 = WindowMedian2(sub) - 2 * sub[blocks[p].date]
        /\ (pc = "done" /\ critical_dates # <<>>) =>
                (result = "report" /\ Len(blocks) = Len(critical_dates))

\* a returned report over two flagged days with the artifact missing
C13_Witness ==
    artifact = "missing" /\ result = "report" /\ Len(blocks) >= 2

\* how often a day's analysis called fn
CountCalls(calls, fn) == Cardinality({i \in DOMAIN calls : calls[i] = fn})

\* how often the analyses of all reported days together called fn
TotalCalls(fn) == SumSeq([p \in 1..Len(blocks) |-> CountCalls(blocks[p].calls, fn)])

\* C15: the recovery potential of each lever of an analysed day is the pipeline's
\* prediction on the lever's perturbed copy minus its prediction on the
\* unperturbed row, so a day with n recommendations rests on at least n + 1
\* calls of model.predict and no amount is a scaled attribution value.
C15_RecoveryByReprediction ==
    \A p \in DOMAIN blocks :
        blocks[p].recommendations # <<>> =>
            /\ CountCalls(blocks[p].calls, "model.predict")
                   >= Len(blocks[p].recommendations) + 1
            /\ \A i \in DOMAIN blocks[p].recommendations :
                   blocks[p].recommendations[i].rec_effect10
                       \notin {t * blocks[p].negative_factors[i].k : t \in {5, 6, 7, 8}}

\* C16: within one report the artifact is loaded and the explainer constructed at
\* most once, however many days are flagged.
C16_LoadedOncePerReport ==
    /\ TotalCalls("load_artifacts") <= 1
    /\ TotalCalls("TreeExplainer") <= 1

\* C17: each lazily created global is constructed at most once and never
\* replaced, also when first calls run concurrently: all callers of a getter
\* get the same object.
C17_SingleInstance ==
    pc = "requests" =>
        /\ \A g \in Getters : created[g] <= 1
        /\ \A t, u \in DOMAIN thread :
            (/\ thread[t].pc = "done"
             /\ thread[u].pc = "done"
             /\ thread[t].getter = thread[u].getter) => thread[t].got = thread[u].got

\* C18: for fixed contributions and a fixed shortfall, a higher share
\* threshold never selects more factors and a lower monetary threshold never
\* selects fewer, counted after the cut to the top five.
C18_ThresholdMonotone ==
    pc = "selected" =>
        \A p, q \in ShareGrid : \A a, b \in MoneyGrid :
            /\ p <= q => selection.count[<<q, a>>] <= selection.count[<<p, a>>]
            /\ a <= b => selection.count[<<p, a>>] >= selection.count[<<p, b>>]

\* a day where both thresholds change the count and the cut to five applies
C18_Witness ==
    /\ pc = "selected"
    /\ selection.loss2 > 0
    /\ Cardinality({i \in DOMAIN shap_row : shap_row[i] < 0}) > TopNeg
    /\ selection.count[<<0, 0>>] = TopNeg
    /\ \E p, q \in ShareGrid : \E a \in MoneyGrid :
        p < q /\ selection.count[<<q, a>>] < selection.count[<<p, a>>]
    /\ \E p \in ShareGrid : \E a, b \in MoneyGrid :
        a < b /\ selection.count[<<p, a>>] > selection.count[<<p, b>>]

\* C19: the canonical-name mapping is idempotent: applied to a label it has
\* produced it returns that label, so canonicalizing again changes no label
\* and merges nothing further.
C19_CanonicalizationIdempotent ==
    pc = "canon_twice" => canon.twice = canon.once

\* a platform ROAS column: renamed by the first application, kept by the second
C19_Witness ==
    /\ pc = "canon_twice"
    /\ Contains(Lower(canon.name), (* "grab_roas" *) <<103,114,97,98,95,114,111,97,115>>)
    /\ canon.once # canon.name
    /\ canon.twice = canon.once

\* position of entry i of s in descending order of k, equal entries in the order of s
StableRank(s, i) ==
    Cardinality({j \in DOMAIN s : s[j].k > s[i].k \/ (s[j].k = s[i].k /\ j < i)}) + 1

\* flagged days by rising sales, days of equal sales by date
DaysInTotalOrder ==
    \A a, b \in DOMAIN critical_dates :
        a < b => LET da == critical_dates[a]
                     db == critical_dates[b]
                 IN sub[da] < sub[db] \/ (sub[da] = sub[db] /\ da < db)

\* the listed factors are the first TopNeg by falling contribution, equal
\* contributions in the order of the feature list
FactorsInTotalOrder(p) ==
    LET app == blocks[p].negative_appended
        top == blocks[p].negative_factors
    IN top # <<>> =>
        /\ Len(top) = Min(TopNeg, Len(app))
        /\ \A i \in DOMAIN app : StableRank(app, i) <= TopNeg => top[StableRank(app, i)] = app[i]

\* C20: the narrative is a function of the frozen inputs alone, so two runs
\* give identical text: the flagged days appear by rising sales with days of
\* equal sales in date order, one block per flagged day in that order, and
\* the factors of a day by falling contribution with equal contributions in
\* feature-list order.
C20_OrderFixedByInputs ==
    (pc \in {"days", "done"} /\ result \in {"pending", "report"}) =>
        /\ DaysInTotalOrder
        /\ \A p \in DOMAIN blocks :
            /\ blocks[p].date = critical_dates[p]
            /\ FactorsInTotalOrder(p)

\* a report with two flagged days of equal sales and a day with two equal contributions
C20_Witness ==
    /\ result = "report"
    /\ \E a, b \in DOMAIN critical_dates :
        a < b /\ sub[critical_dates[a]] = sub[critical_dates[b]]
    /\ \E p \in DOMAIN blocks : \E i, j \in DOMAIN blocks[p].negative_factors :
        /\ i < j
        /\ blocks[p].negative_factors[i].k = blocks[p].negative_factors[j].k
        /\ blocks[p].negative_factors[i].name # blocks[p].negative_factors[j].name

\* C21: in a generated report every flagged day counted in the header has its
\* own per-day entry: the entries are at least as many as the flagged days, and
\* each flagged date heads one of them.
C21_EveryFlaggedDayHasEntry ==
    result = "report" =>
        /\ Len(blocks) >= Len(critical_dates)
        /\ \A j \in DOMAIN critical_dates : \E p \in DOMAIN blocks :
            blocks[p].date = critical_dates[j]

\* a report of several flagged days, one of which failed in the ML analysis
C21_Witness ==
    /\ result = "report"
    /\ Len(critical_dates) >= 2
    /\ \E p \in DOMAIN blocks : blocks[p].kind = "ml_unavailable"
    /\ \E p \in DOMAIN blocks : blocks[p].kind = "full"

\* C22: for a window that passes the minimum-data check, the flagged days
\* counted in the header are at most half of the days of the window.
C22_AtMostHalfFlagged ==
    (ThresholdComputed /\ ~InsufficientData(sub)) => 2 * Len(critical_dates) <= Len(sub)

\* the signed sum of the row's Shapley values over the (0-based) column indices grp
GroupSum(shap_values, grp) == SumSeq([q \in 1..Len(grp) |-> shap_values[grp[q] + 1]])

\* C23: on a flagged day the contribution attributed to an original feature
\* is the signed sum of the Shapley values of exactly the preprocessed columns
\* that the resolver maps to that feature.
C23_ContributionIsGroupSum ==
    \A p \in Attributed :
        LET g == resolve_preprocessed_feature_groups(pre).groups
        IN \A i \in 1..Len(features) :
            features[i] \in DOMAIN g =>
                /\ i \in DOMAIN blocks[p].contributions
                /\ blocks[p].contributions[i] = GroupSum(blocks[p].shap_values, g[features[i]])

\* an amount of the model in thousands of IDR (the amounts are whole thousands)
InThousands(x) == x \div 1000

\* the sum of the absolute values of the day's negative contributions
NegativeTotal(cs) == SumSeq([i \in 1..Len(cs) |-> IF cs[i] < 0 THEN -cs[i] ELSE 0])

\* C24: the monetary impact shown for a negative contributor is the day's
\* shortfall times its absolute contribution over the sum of the absolute
\* negative contributions (cross-multiplied, shortfall doubled as loss2), and
\* so no impact exceeds the shortfall.
C24_ImpactIsShareOfShortfall ==
    \A p \in DOMAIN blocks :
        LET fs == blocks[p].negative_factors
            total == NegativeTotal(blocks[p].contributions)
        IN \A i \in DOMAIN fs :
            /\ 2 * InThousands(fs[i].k) * InThousands(total)
                   = InThousands(blocks[p].loss2) * InThousands(fs[i].k)
            /\ 2 * fs[i].k <= blocks[p].loss2

\* the severity of a flagged day: its shortfall against the median, doubled
Severity(d) == Loss2(median2, sub[d])

\* C25 as stated: the flagged dates are listed by rising severity, the least
\* severe day first.
C25_AscendingSeverity ==
    ThresholdComputed =>
        \A a, b \in DOMAIN critical_dates :
            a < b => Severity(critical_dates[a]) <= Severity(critical_dates[b])

\* C25: the flagged dates are listed and rendered by rising realized sales,
\* that is the most severe day first; the order is total: of two flagged days
\* the one with the larger shortfall comes first and days of equal sales keep
\* date order.
C25_MostSevereFirst ==
    ThresholdComputed =>
        /\ \A a, b \in DOMAIN critical_dates :
            a < b => \/ Severity(critical_dates[a]) > Severity(critical_dates[b])
                     \/ /\ Severity(critical_dates[a]) = Severity(critical_dates[b])
                        /\ critical_dates[a] < critical_dates[b]
        /\ \A p, q \in DOMAIN blocks :
            p < q => \/ blocks[p].loss2 > blocks[q].loss2
                     \/ blocks[p].loss2 = blocks[q].loss2 /\ blocks[p].date < blocks[q].date

\* a rendered report with flagged days of different and of equal severity
C25_Witness ==
    /\ result = "report"
    /\ Len(blocks) >= 3
    /\ \E p, q \in DOMAIN blocks : blocks[p].loss2 > blocks[q].loss2
    /\ \E p, q \in DOMAIN blocks : p < q /\ blocks[p].loss2 = blocks[q].loss2

\* the input columns of the transformers that are not dropped, and of the dropped one
KeptColumns == UNION {IF pre[t].kind = "drop" THEN {} ELSE Range(pre[t].cols) : t \in DOMAIN pre}

DroppedColumns == UNION {IF pre[t].kind = "drop" THEN Range(pre[t].cols) ELSE {} : t \in DOMAIN pre}

\* C26: every input column of every transformer that is not dropped has an
\* entry in the resolver's mapping, an empty one when it produced no output
\* column; the columns of remainder='drop' have no entry and take up no
\* column offset.
C26_EveryKeptColumnHasEntry ==
    pc = "resolved" =>
        /\ \A c \in KeptColumns : c \in DOMAIN groups
        /\ \A c \in DroppedColumns : c \notin DOMAIN groups
        /\ Len(names_out) = PreWidth(pre)
        /\ \A c \in DOMAIN groups : \A q \in DOMAIN groups[c] :
            groups[c][q] \in 0..(Len(names_out) - 1)

\* the dates of the windows requested so far in the running or finished sync
RequestedDays(s) == UNION {Days(s.chunks[i].from, s.chunks[i].to) : i \in DOMAIN s.chunks}

\* the most chunks a range of days can take
ChunksNeeded(s) == (s.end_date - s.start_date) \div CHUNK_DAYS + 1

\* the windows requested so far tile the range from start_date on, and the finished
\* loop has requested exactly [start_date, end_date]
ChunksTileTheRange ==
    (pc = "etl" /\ sync.pc \in {"chunk", "finish", "done"} /\ sync.start_date <= sync.end_date) =>
        LET cs == sync.chunks IN
        /\ \A i \in DOMAIN cs :
            /\ cs[i].from <= cs[i].to
            /\ cs[i].to - cs[i].from + 1 <= CHUNK_DAYS
            /\ cs[i].from = IF i = 1 THEN sync.start_date ELSE cs[i - 1].to + 1
            /\ cs[i].to <= sync.end_date
        /\ Len(cs) <= ChunksNeeded(sync)
        /\ sync.pc = "chunk" => Len(cs) < ChunksNeeded(sync)
        /\ sync.pc \in {"finish", "done"} =>
            /\ RequestedDays(sync) = Days(sync.start_date, sync.end_date)
            /\ cs[Len(cs)].to = sync.end_date

\* C27: for start_date <= end_date the requested windows are consecutive and
\* do not overlap, each spans at most CHUNK_DAYS days, a failed chunk is
\* followed by the next one, the loop ends after as many chunks as the range
\* needs, and the windows of a finished loop make up exactly
\* [start_date, end_date].
C27_ChunksTileTheRangeAndEnd ==
    /\ []ChunksTileTheRange
    /\ (sync.pc = "chunk") ~> (sync.pc \in {"finish", "done"})

\* a finished sync of several chunks in which a failed chunk was followed by a stored one
C27_Witness ==
    /\ pc = "etl"
    /\ sync.pc = "done"
    /\ Len(sync.chunks) >= 3
    /\ \E i, j \in DOMAIN sync.chunks : i < j /\ ~sync.chunks[i].ok /\ sync.chunks[j].ok

\* C28: a default sync (start_date None) that follows a sync with a failed
\* chunk requests the failed chunk's dates again: every date an earlier sync
\* asked for and did not store lies in a window of the default sync.
C28_FailedChunkRequestedAgain ==
    (pc = "etl" /\ sync.n >= 2 /\ ~sync.explicit /\ sync.pc = "done") =>
        \A d \in sync.wanted : d \in DOMAIN sync.before \/ d \in RequestedDays(sync)

\* C29: a call of _make_request sends at most RETRIES requests, returns on the
\* first request that succeeds without sending another, and raises only after
\* RETRIES requests failed.
C29_AtMostThreeRequests ==
    pc = "etl" =>
        /\ Len(request.log) <= RETRIES
        /\ \A i \in 1..(Len(request.log) - 1) : request.log[i] = "failed"
        /\ request.status = "returned" => request.log[Len(request.log)] = "ok"
        /\ request.status = "raised" =>
            /\ Len(request.log) = RETRIES
            /\ \A i \in DOMAIN request.log : request.log[i] = "failed"
        /\ (request.status = "pending" /\ request.log # <<>>) =>
            request.log[Len(request.log)] = "failed"

\* a call that returned on its third request
C29_Witness ==
    /\ pc = "etl"
    /\ request.status = "returned"
    /\ request.log = <<"failed", "failed", "ok">>

\* every row a stored chunk of the call upserted was already in the table with the same hash
AllRowsAlreadyStored(s) ==
    \A i \in DOMAIN s.chunks :
        s.chunks[i].ok => \A d \in Days(s.chunks[i].from, s.chunks[i].to) :
                              d \in DOMAIN s.before /\ s.before[d] = s.served

\* C30: upserting rows whose key is stored with the same row_hash changes no
\* stored row and counts 0 updated records, so a sync over unchanged API data
\* leaves raw_stats as it was, refreshes no view and queues no retrain job.
C30_UnchangedDataIsNoOp ==
    (pc = "etl" /\ sync.pc = "done" /\ AllRowsAlreadyStored(sync)) =>
        /\ raw_stats = sync.before
        /\ \A i \in DOMAIN sync.chunks : sync.chunks[i].updated = 0
        /\ sync.total_records_updated = 0
        /\ ~sync.refreshed
        /\ ~sync.retrain
        /\ sync.status \in {"success", "up_to_date"}

\* the same two-chunk sync run a second time, every chunk stored both times
C30_Witness ==
    /\ pc = "etl"
    /\ sync.pc = "done"
    /\ sync.n = 2
    /\ sync.explicit
    /\ Len(sync.chunks) = 2
    /\ \A i \in DOMAIN sync.chunks : sync.chunks[i].ok
    /\ AllRowsAlreadyStored(sync)
    /\ sync.status = "success"
    /\ ~sync.refreshed

====
